---- MODULE Spec2Model ----
(***************************************************************************)
(* A model of the OpenEXR reader (OpenEXRInput) of                         *)
(* src/src/ffmpeg.imageio/ffmpeg_pipe_output.cpp: the channel catalogue    *)
(* (query_channels), the lazily initialized parts of an open handle under  *)
(* concurrent callers, and the chunked scanline and tile reads.            *)
(*                                                                         *)
(* Several specifications share the module, one per component:             *)
(*   SpecChan   query_channels on a channel list given in any order        *)
(*   SpecPart   open / seek_subimage / spec / spec_dimensions / init_part  *)
(*              / close run by concurrent callers of one handle            *)
(*   SpecScan   read_native_scanlines, one chunk per step                  *)
(*   SpecTiles  read_native_tiles, one tile per step                       *)
(*   SpecMip    compute_mipres as seek_subimage and spec apply it          *)
(*   SpecReopen one caller opening a second file on a closed handle        *)
(*   SpecBind   the binding of the codec's channels to the caller's buffer  *)
(*   SpecFill   the missing color: captured by open, used by               *)
(*              check_fill_missing                                         *)
(*   SpecOpen   open and close: the byte stream and the codec context      *)
(*   SpecPipe   open and close of the pipe writer (FFMPEGPipeOutput) of    *)
(*              the same file                                              *)
(* Strings are sequences of character codes, so that splitting at the last *)
(* '.', byte-wise ordering and case-insensitive comparison are computed.   *)
(***************************************************************************)
EXTENDS Integers, Sequences, FiniteSets, TLC

VARIABLES
    chan,       \* SpecChan: [pc, input, part, ok, errs]
    hnd,        \* SpecPart: the handle's fields (m_parts, m_subimage, ...)
    thr,        \* SpecPart: per caller, the position in its call
    lock,       \* SpecPart: the handle's recursive mutex [owner, depth]
    ghost,      \* SpecPart: history: per part, the header parses begun, those
                \* that ran to their end, whether one failed; the files
                \* opened so far and how many are followed
    scan,       \* SpecScan: the state of one read_native_scanlines call
    tiles,      \* SpecTiles: the state of one read_native_tiles call
    call        \* SpecMip, SpecFill, SpecBind, SpecReopen, SpecOpen, SpecPipe:
                \* the state of the one call followed

vars == <<chan, hnd, thr, lock, ghost, scan, tiles, call>>

-----------------------------------------------------------------------------
(* Bounds of the model.                                                    *)

\* Largest number of channels of a channel list drawn from ChanPool.
MaxChans == 3

\* Calls on a part are followed until this many header parses of the part
\* have begun (each failed parse lengthens the part's pixeltype and chanbytes).
MaxParses == 2

-----------------------------------------------------------------------------
(* Strings: sequences of character codes.                                  *)

Range(s) == {s[i] : i \in 1..Len(s)}

Min(a, b) == IF a < b THEN a ELSE b
Max(a, b) == IF a > b THEN a ELSE b

\* The character '.', as its code.
Dot == 46

ToLower(c) == IF c >= 65 /\ c <= 90 THEN c + 32 ELSE c

\* Strutil::iequals: equality ignoring case.
iequals(a, b) ==
    /\ Len(a) = Len(b)
    /\ \A i \in 1..Len(a) : ToLower(a[i]) = ToLower(b[i])

\* string_view operator<: byte-wise lexicographic order.
StrLess(a, b) ==
    \/ \E k \in 1..Min(Len(a), Len(b)) :
          /\ \A i \in 1..(k - 1) : a[i] = b[i]
          /\ a[k] < b[k]
    \/ /\ Len(a) < Len(b)
       /\ \A i \in 1..Len(a) : a[i] = b[i]

\* Split a full channel name into layer and suffix at the last '.'.
split_name(fullname) ==
    LET dots == {i \in 1..Len(fullname) : fullname[i] = Dot}
    IN  IF dots = {}
        THEN [layer |-> <<>>, suffix |-> fullname]
        ELSE LET dot == CHOOSE i \in dots : \A j \in dots : j <= i
             IN  [layer  |-> SubSeq(fullname, 1, dot),
                  suffix |-> SubSeq(fullname, dot + 1, Len(fullname))]

-----------------------------------------------------------------------------
(* Pixel types and ImageSpec.                                              *)

PixelTypes == {"EXR_PIXEL_UINT", "EXR_PIXEL_HALF", "EXR_PIXEL_FLOAT"}

TypeDesc_from_ImfPixelType(ptype) ==
    CASE ptype = "EXR_PIXEL_UINT"  -> "UINT"
      [] ptype = "EXR_PIXEL_HALF"  -> "HALF"
      [] ptype = "EXR_PIXEL_FLOAT" -> "FLOAT"
      [] OTHER -> "UNKNOWN"

\* TypeDesc::size() of the three base types the reader produces.
TypeSize(t) ==
    CASE t = "UINT"  -> 4
      [] t = "HALF"  -> 2
      [] t = "FLOAT" -> 4
      [] OTHER -> 0

\* TypeDesc::basetype_merge as query_channels uses it: over UINT, HALF and
\* FLOAT two different types merge to FLOAT.
basetype_merge(a, b) ==
    IF a = b THEN a
    ELSE IF a = "UNKNOWN" THEN b
    ELSE IF b = "UNKNOWN" THEN a
    ELSE "FLOAT"

\* ImageSpec(): the default-constructed spec.
ImageSpecDefault ==
    [x |-> 0, y |-> 0, width |-> 0, height |-> 0,
     full_x |-> 0, full_y |-> 0, full_width |-> 0, full_height |-> 0,
     tile_width |-> 0, tile_height |-> 0,
     nchannels |-> 0, format |-> "UNKNOWN",
     channelformats |-> <<>>, channelnames |-> <<>>,
     alpha_channel |-> -1, z_channel |-> -1, deep |-> FALSE]

\* ImageSpec::channelformat(chan)
channelformat(spec, c) ==
    IF c >= 0 /\ c < Len(spec.channelformats)
    THEN spec.channelformats[c + 1]
    ELSE spec.format

\* PartInfo(): a part that has not been inventoried.
PartInfoDefault ==
    [initialized |-> FALSE, spec |-> ImageSpecDefault,
     topwidth |-> 0, topheight |-> 0,
     levelmode |-> "EXR_TILE_ONE_LEVEL", roundingmode |-> "EXR_TILE_ROUND_DOWN",
     cubeface |-> FALSE, nmiplevels |-> 0,
     top_datawindow |-> [minx |-> 0, miny |-> 0, maxx |-> 0, maxy |-> 0],
     top_displaywindow |-> [minx |-> 0, miny |-> 0, maxx |-> 0, maxy |-> 0],
     pixeltype |-> <<>>, chanbytes |-> <<>>]

-----------------------------------------------------------------------------
(* ChanNameHolder and the canonical channel order.                         *)

\* compute_special_index: the usual table.
special ==
    << <<82>>,                          \* R
       <<82, 101, 100>>,                \* Red
       <<71>>,                          \* G
       <<71, 114, 101, 101, 110>>,      \* Green
       <<66>>,                          \* B
       <<66, 108, 117, 101>>,           \* Blue
       <<89>>,                          \* Y
       <<114, 101, 97, 108>>,           \* real
       <<105, 109, 97, 103>>,           \* imag
       <<65>>,                          \* A
       <<65, 108, 112, 104, 97>>,       \* Alpha
       <<65, 82>>,                      \* AR
       <<82, 65>>,                      \* RA
       <<65, 71>>,                      \* AG
       <<71, 65>>,                      \* GA
       <<65, 66>>,                      \* AB
       <<66, 65>>,                      \* BA
       <<90>>,                          \* Z
       <<68, 101, 112, 116, 104>>,      \* Depth
       <<90, 98, 97, 99, 107>> >>       \* Zback

\* compute_special_index_xyz: the table for layers that hold x, y, z.
special_xyz ==
    << <<82>>,                          \* R
       <<82, 101, 100>>,                \* Red
       <<71>>,                          \* G
       <<71, 114, 101, 101, 110>>,      \* Green
       <<66>>,                          \* B
       <<66, 108, 117, 101>>,           \* Blue
       <<88>>,                          \* X
       <<89>>,                          \* Y
       <<90>>,                          \* Z
       <<114, 101, 97, 108>>,           \* real
       <<105, 109, 97, 103>>,           \* imag
       <<65>>,                          \* A
       <<65, 108, 112, 104, 97>>,       \* Alpha
       <<65, 82>>,                      \* AR
       <<82, 65>>,                      \* RA
       <<65, 71>>,                      \* AG
       <<71, 65>>,                      \* GA
       <<65, 66>>,                      \* AB
       <<66, 65>>,                      \* BA
       <<68, 101, 112, 116, 104>>,      \* Depth
       <<90, 98, 97, 99, 107>> >>       \* Zback

str_X == <<88>>
str_Y == <<89>>
str_Z == <<90>>
str_A == <<65>>
str_Alpha == <<65, 108, 112, 104, 97>>
str_Depth == <<68, 101, 112, 116, 104>>

\* The sentinel special_index of a ChanNameHolder.
NoSpecialIndex == 10000

\* ChanNameHolder(n, exrchan)
ChanNameHolder(n, exrchan) ==
    [fullname |-> exrchan.name,
     layer |-> split_name(exrchan.name).layer,
     suffix |-> split_name(exrchan.name).suffix,
     exr_channel_number |-> n,
     special_index |-> NoSpecialIndex,
     exr_data_type |-> exrchan.pixel_type,
     datatype |-> TypeDesc_from_ImfPixelType(exrchan.pixel_type),
     xSampling |-> exrchan.x_sampling,
     ySampling |-> exrchan.y_sampling]

\* The loop of both compute_special_index functions: the zero-based position
\* of the first table entry that equals the suffix ignoring case; the
\* holder's special_index is left alone when there is none.
TableIndex(ch, table) ==
    LET hits == {i \in 1..Len(table) : iequals(ch.suffix, table[i])}
    IN  IF hits = {} THEN ch.special_index
        ELSE (CHOOSE i \in hits : \A j \in hits : i <= j) - 1

compute_special_index(ch) ==
    [ch EXCEPT !.special_index = TableIndex(ch, special)]

compute_special_index_xyz(ch) ==
    [ch EXCEPT !.special_index = TableIndex(ch, special_xyz)]

\* Partial sort on layer only
compare_layer(a, b) == StrLess(a.layer, b.layer)

\* compare_cnh without its last line: holders of equal special index compare
\* as equivalent whatever their suffixes.
compare_cnh_no_suffix(a, b) ==
    IF StrLess(a.layer, b.layer) THEN TRUE
    ELSE IF StrLess(b.layer, a.layer) THEN FALSE
    ELSE a.special_index < b.special_index

\* Full sort on layer name, special index, suffix
compare_cnh(a, b) ==
    IF StrLess(a.layer, b.layer) THEN TRUE
    ELSE IF StrLess(b.layer, a.layer) THEN FALSE
    ELSE IF a.special_index < b.special_index THEN TRUE
    ELSE IF a.special_index > b.special_index THEN FALSE
    ELSE StrLess(a.suffix, b.suffix)

\* Is the channel name (suffix only) in the list?
suffixfound(name, chans) ==
    \E i \in 1..Len(chans) : iequals(name, chans[i].suffix)

\* std::sort is not stable: every arrangement of the elements that is ordered
\* by the comparison is a possible result.  The set of all of them, for the
\* comparison compare_layer (line 1167) ...
RECURSIVE SortByLayer(_)
SortByLayer(S) ==
    IF S = {} THEN {<<>>}
    ELSE UNION { { <<m>> \o t : t \in SortByLayer(S \ {m}) } :
                 m \in {e \in S : \A o \in S : ~compare_layer(o, e)} }

\* ... and for the comparison compare_cnh (line 1193).
RECURSIVE SortByCnh(_)
SortByCnh(S) ==
    IF S = {} THEN {<<>>}
    ELSE UNION { { <<m>> \o t : t \in SortByCnh(S \ {m}) } :
                 m \in {e \in S : \A o \in S : ~compare_cnh(o, e)} }

\* LayerIndexed with the usual table for every layer.
LayerIndexed_usual_only(layerspan) ==
    [i \in 1..Len(layerspan) |-> compute_special_index(layerspan[i])]

\* One layer of the loop of lines 1170-1196: the holders of cnh[b..e-1] with
\* their special indices computed from the table the layer selects.
LayerIndexed(layerspan) ==
    IF suffixfound(str_X, layerspan)
       /\ (suffixfound(str_Y, layerspan) \/ suffixfound(str_Z, layerspan))
    THEN [i \in 1..Len(layerspan) |-> compute_special_index_xyz(layerspan[i])]
    ELSE [i \in 1..Len(layerspan) |-> compute_special_index(layerspan[i])]

\* The loop of lines 1170-1196 from position layerbegin on: all results.
RECURSIVE SortLayers(_, _)
SortLayers(cnh, layerbegin) ==
    IF layerbegin > Len(cnh) THEN {cnh}
    ELSE LET differ == {i \in (layerbegin + 1)..Len(cnh) :
                           cnh[i].layer # cnh[layerbegin].layer}
             layerend == IF differ = {} THEN Len(cnh) + 1
                         ELSE CHOOSE i \in differ : \A j \in differ : i <= j
             layerspan == LayerIndexed(SubSeq(cnh, layerbegin, layerend - 1))
         IN  UNION { SortLayers(SubSeq(cnh, 1, layerbegin - 1) \o srt
                                  \o SubSeq(cnh, layerend, Len(cnh)),
                                layerend) :
                     srt \in SortByCnh(Range(layerspan)) }

\* Lines 1153-1196: the holders in every order the two sorts can leave.
CanonicalOrders(entries) ==
    LET cnh == [c \in 1..Len(entries) |-> ChanNameHolder(c - 1, entries[c])]
    IN  UNION { SortLayers(s1, 1) : s1 \in SortByLayer(Range(cnh)) }

\* The final pass without its tests alpha_channel < 0 and z_channel < 0: the
\* last matching channel is kept.
RECURSIVE FillSpec_last_match(_, _, _)
FillSpec_last_match(acc, cnh, c) ==
    IF c >= Len(cnh) THEN acc
    ELSE LET h == cnh[c + 1]
             sp == acc.part.spec
             sub == h.xSampling # 1 \/ h.ySampling # 1
             sp2 == [sp EXCEPT
                 !.channelnames = Append(@, h.fullname),
                 !.channelformats = Append(@, h.datatype),
                 !.format = basetype_merge(@, h.datatype),
                 !.alpha_channel =
                     IF (iequals(h.suffix, str_A)
                                  \/ iequals(h.suffix, str_Alpha))
                     THEN c ELSE @,
                 !.z_channel =
                     IF (iequals(h.suffix, str_Z)
                                  \/ iequals(h.suffix, str_Depth))
                     THEN c ELSE @]
         IN  FillSpec_last_match(
               [ok |-> acc.ok /\ ~sub,
                all_one_format |-> acc.all_one_format
                                   /\ h.datatype = cnh[1].datatype,
                errs |-> IF sub THEN Append(acc.errs, h.fullname) ELSE acc.errs,
                part |-> [acc.part EXCEPT
                    !.spec = sp2,
                    !.pixeltype = Append(@, h.exr_data_type),
                    !.chanbytes = Append(@, TypeSize(h.datatype))]],
               cnh, c + 1)

\* The final pass reporting the first subsampled channel only.
RECURSIVE FillSpec_first_offender(_, _, _)
FillSpec_first_offender(acc, cnh, c) ==
    IF c >= Len(cnh) THEN acc
    ELSE LET h == cnh[c + 1]
             sp == acc.part.spec
             sub == h.xSampling # 1 \/ h.ySampling # 1
             sp2 == [sp EXCEPT
                 !.channelnames = Append(@, h.fullname),
                 !.channelformats = Append(@, h.datatype),
                 !.format = basetype_merge(@, h.datatype),
                 !.alpha_channel =
                     IF @ < 0 /\ (iequals(h.suffix, str_A)
                                  \/ iequals(h.suffix, str_Alpha))
                     THEN c ELSE @,
                 !.z_channel =
                     IF @ < 0 /\ (iequals(h.suffix, str_Z)
                                  \/ iequals(h.suffix, str_Depth))
                     THEN c ELSE @]
         IN  FillSpec_first_offender(
               [ok |-> acc.ok /\ ~sub,
                all_one_format |-> acc.all_one_format
                                   /\ h.datatype = cnh[1].datatype,
                errs |-> IF sub /\ acc.errs = <<>> THEN Append(acc.errs, h.fullname) ELSE acc.errs,
                part |-> [acc.part EXCEPT
                    !.spec = sp2,
                    !.pixeltype = Append(@, h.exr_data_type),
                    !.chanbytes = Append(@, TypeSize(h.datatype))]],
               cnh, c + 1)

\* Lines 1201-1225: the final pass over the sorted holders, channel c.
RECURSIVE FillSpec(_, _, _)
FillSpec(acc, cnh, c) ==
    IF c >= Len(cnh) THEN acc
    ELSE LET h == cnh[c + 1]
             sp == acc.part.spec
             sub == h.xSampling # 1 \/ h.ySampling # 1
             sp2 == [sp EXCEPT
                 !.channelnames = Append(@, h.fullname),
                 !.channelformats = Append(@, h.datatype),
                 !.format = basetype_merge(@, h.datatype),
                 !.alpha_channel =
                     IF @ < 0 /\ (iequals(h.suffix, str_A)
                                  \/ iequals(h.suffix, str_Alpha))
                     THEN c ELSE @,
                 !.z_channel =
                     IF @ < 0 /\ (iequals(h.suffix, str_Z)
                                  \/ iequals(h.suffix, str_Depth))
                     THEN c ELSE @]
         IN  FillSpec(
               [ok |-> acc.ok /\ ~sub,
                all_one_format |-> acc.all_one_format
                                   /\ h.datatype = cnh[1].datatype,
                errs |-> IF sub THEN Append(acc.errs, h.fullname) ELSE acc.errs,
                part |-> [acc.part EXCEPT
                    !.spec = sp2,
                    !.pixeltype = Append(@, h.exr_data_type),
                    !.chanbytes = Append(@, TypeSize(h.datatype))]],
               cnh, c + 1)

\* OpenEXRInput::PartInfo::query_channels on the part `part`, where chlist
\* is what exr_get_channels gives: [rv, entries].  The set of possible
\* results [ok, part, errs]; errs holds the channel named by each
\* "Subsampled channels are not supported" error, "" for "No channels found".
query_channels(part, chlist) ==
    LET p0 == [part EXCEPT !.spec.nchannels = 0]
    IN  IF chlist.rv # "EXR_ERR_SUCCESS"
        THEN {[ok |-> FALSE, part |-> p0, errs |-> <<>>]}
        ELSE IF Len(chlist.entries) = 0
        THEN {[ok |-> FALSE, part |-> p0, errs |-> << <<>> >>]}
        ELSE LET p1 == [p0 EXCEPT
                          !.spec.nchannels = Len(chlist.entries),
                          !.spec.format = "UNKNOWN"]
             IN  { LET r == FillSpec([ok |-> TRUE, all_one_format |-> TRUE,
                                      errs |-> <<>>, part |-> p1], cnh, 0)
                   IN  [ok |-> r.ok, errs |-> r.errs,
                        part |-> IF r.all_one_format
                                 THEN [r.part EXCEPT !.spec.channelformats = <<>>]
                                 ELSE r.part] :
                   cnh \in CanonicalOrders(chlist.entries) }

-----------------------------------------------------------------------------
(* SpecChan: query_channels on a channel list given in any order.          *)

Chan(name, ptype, xs, ys) ==
    [name |-> name, pixel_type |-> ptype, x_sampling |-> xs, y_sampling |-> ys]

\* The channels the lists are drawn from: plain colour channels, a name that
\* differs from another in case only, names in no table, layered names.
ChanPool ==
    { Chan(<<82>>, "EXR_PIXEL_HALF", 1, 1),                \* R
      Chan(<<71>>, "EXR_PIXEL_HALF", 1, 1),                \* G
      Chan(<<66>>, "EXR_PIXEL_HALF", 1, 1),                \* B
      Chan(<<65>>, "EXR_PIXEL_HALF", 1, 1),                \* A
      Chan(<<90>>, "EXR_PIXEL_FLOAT", 1, 1),               \* Z
      Chan(<<114>>, "EXR_PIXEL_HALF", 1, 1),               \* r
      Chan(<<88>>, "EXR_PIXEL_FLOAT", 1, 1),               \* X
      Chan(<<89>>, "EXR_PIXEL_FLOAT", 1, 1),               \* Y
      Chan(<<102, 111, 111>>, "EXR_PIXEL_UINT", 1, 1),     \* foo
      Chan(<<85>>, "EXR_PIXEL_HALF", 2, 2),                \* U, subsampled
      Chan(<<78, 46, 88>>, "EXR_PIXEL_FLOAT", 1, 1),       \* N.X
      Chan(<<78, 46, 90>>, "EXR_PIXEL_FLOAT", 1, 1),       \* N.Z
      Chan(<<97, 46, 65>>, "EXR_PIXEL_HALF", 1, 1) }       \* a.A

\* {diffuse.R, diffuse.G, diffuse.B, N.X, N.Y, N.Z}
LayeredSet ==
    { Chan(<<100, 105, 102, 102, 117, 115, 101, 46, 82>>, "EXR_PIXEL_HALF", 1, 1),
      Chan(<<100, 105, 102, 102, 117, 115, 101, 46, 71>>, "EXR_PIXEL_HALF", 1, 1),
      Chan(<<100, 105, 102, 102, 117, 115, 101, 46, 66>>, "EXR_PIXEL_HALF", 1, 1),
      Chan(<<78, 46, 88>>, "EXR_PIXEL_FLOAT", 1, 1),
      Chan(<<78, 46, 89>>, "EXR_PIXEL_FLOAT", 1, 1),
      Chan(<<78, 46, 90>>, "EXR_PIXEL_FLOAT", 1, 1) }

\* Every order a set of channels can be listed in.
Orders(S) ==
    {f \in [1..Cardinality(S) -> S] :
        \A i, j \in 1..Cardinality(S) : i # j => f[i] # f[j]}

\* {R, G, B, A}
RGBASet ==
    { Chan(<<82>>, "EXR_PIXEL_HALF", 1, 1),
      Chan(<<71>>, "EXR_PIXEL_HALF", 1, 1),
      Chan(<<66>>, "EXR_PIXEL_HALF", 1, 1),
      Chan(<<65>>, "EXR_PIXEL_HALF", 1, 1) }

\* {alpha, A, DEPTH, Z}: two names for alpha, two for depth
AlphaDepthSet ==
    { Chan(<<97, 108, 112, 104, 97>>, "EXR_PIXEL_HALF", 1, 1),
      Chan(<<65>>, "EXR_PIXEL_HALF", 1, 1),
      Chan(<<68, 69, 80, 84, 72>>, "EXR_PIXEL_FLOAT", 1, 1),
      Chan(<<90>>, "EXR_PIXEL_FLOAT", 1, 1) }

ChanSets ==
    {S \in SUBSET ChanPool : Cardinality(S) >= 1 /\ Cardinality(S) <= MaxChans}
        \cup {LayeredSet, RGBASet, AlphaDepthSet}

HandleOff == [off |-> TRUE]
ScanOff == [off |-> TRUE]
TilesOff == [off |-> TRUE]
ChanOff == [off |-> TRUE]
CallOff == [off |-> TRUE]

InitChan ==
    /\ \E S \in ChanSets : \E o \in Orders(S) :
          chan = [pc |-> "start", input |-> o,
                  res |-> [ok |-> FALSE, part |-> PartInfoDefault, errs |-> <<>>]]
    /\ hnd = HandleOff /\ thr = HandleOff /\ lock = HandleOff
    /\ ghost = HandleOff
    /\ scan = ScanOff
    /\ tiles = TilesOff
    /\ call = CallOff

\* A caller runs query_channels on a fresh part.
QueryChannelsCall ==
    /\ chan.pc = "start"
    /\ \E r \in query_channels(PartInfoDefault,
                                [rv |-> "EXR_ERR_SUCCESS", entries |-> chan.input]) :
          chan' = [chan EXCEPT !.pc = "done", !.res = r]
    /\ UNCHANGED <<hnd, thr, lock, ghost, scan, tiles, call>>

NextChan == QueryChannelsCall

SpecChan == InitChan /\ [][NextChan]_vars

-----------------------------------------------------------------------------
(* Claims about the channel catalogue (SpecChan).                          *)

\* A fixed listing of a set of channels.
RECURSIVE SetToSeq(_)
SetToSeq(S) ==
    IF S = {} THEN <<>>
    ELSE LET e == CHOOSE x \in S : TRUE IN <<e>> \o SetToSeq(S \ {e})

\* What a caller sees of the canonical sequence: the names, the format of
\* each channel, the alpha and the depth index.
Presented(r) ==
    [channelnames |-> r.part.spec.channelnames,
     formats |-> [c \in 1..r.part.spec.nchannels |->
                     channelformat(r.part.spec, c - 1)],
     alpha_channel |-> r.part.spec.alpha_channel,
     z_channel |-> r.part.spec.z_channel]

\* C9: for a set of distinct channel names with fixed data types, every
\* order of the input gives query_channels the same canonical sequence: the
\* result of the order a call was given equals every result of one fixed
\* listing of the same set (names, per-channel formats, alpha and depth
\* indices).
C9_Determinism ==
    chan.pc = "done" =>
        \A r \in query_channels(PartInfoDefault,
                    [rv |-> "EXR_ERR_SUCCESS",
                     entries |-> SetToSeq(Range(chan.input))]) :
            Presented(r) = Presented(chan.res)

\* A call has returned for a list of three channels or more that was given
\* in another order than the fixed listing and in another order than the
\* canonical one.
C9_Witness ==
    /\ chan.pc = "done"
    /\ Len(chan.input) >= 3
    /\ chan.input # SetToSeq(Range(chan.input))
    /\ chan.res.part.spec.channelnames
           # [i \in 1..Len(chan.input) |-> chan.input[i].name]

\* The special index the catalogue's description gives a name among the
\* names `all`: the position of its suffix, ignoring case, in the X/Y/Z
\* table when its layer holds suffix X and one of Y and Z, in the usual table
\* otherwise, 10000 when the table does not hold it.
DescribedIndex(name, all) ==
    LET lay == split_name(name).layer
        suf == split_name(name).suffix
        has(s) == \E n \in all : /\ split_name(n).layer = lay
                                  /\ iequals(split_name(n).suffix, s)
        table == IF has(str_X) /\ (has(str_Y) \/ has(str_Z))
                 THEN special_xyz ELSE special
        hits == {i \in 1..Len(table) : iequals(suf, table[i])}
    IN  IF hits = {} THEN 10000
        ELSE (CHOOSE i \in hits : \A j \in hits : i <= j) - 1

\* C10: the canonical sequence is a permutation of the input; its layers are
\* in ascending order of the layer key (so each is contiguous); within a
\* layer the channels ascend by special index, then by suffix, the special
\* index being taken from the table the layer selects.
C10_CanonicalOrder ==
    chan.pc = "done" =>
        LET names == chan.res.part.spec.channelnames
            all == {chan.input[i].name : i \in 1..Len(chan.input)}
        IN  /\ Len(names) = Len(chan.input)
            /\ Range(names) = all
            /\ \A i \in 1..(Len(names) - 1) :
                  LET a == split_name(names[i])
                      b == split_name(names[i + 1])
                      ia == DescribedIndex(names[i], all)
                      ib == DescribedIndex(names[i + 1], all)
                  IN  \/ StrLess(a.layer, b.layer)
                      \/ /\ a.layer = b.layer
                         /\ \/ ia < ib
                            \/ ia = ib /\ StrLess(a.suffix, b.suffix)

\* The call has returned for {diffuse.R, diffuse.G, diffuse.B, N.X, N.Y, N.Z}
\* given with N.Z first: N. ordered X, Y, Z and diffuse. ordered R, G, B.
C10_Witness ==
    /\ chan.pc = "done"
    /\ Range(chan.input) = LayeredSet
    /\ chan.input[1].name = <<78, 46, 90>>
    /\ chan.res.part.spec.channelnames =
          << <<78, 46, 88>>, <<78, 46, 89>>, <<78, 46, 90>>,
             <<100, 105, 102, 102, 117, 115, 101, 46, 82>>,
             <<100, 105, 102, 102, 117, 115, 101, 46, 71>>,
             <<100, 105, 102, 102, 117, 115, 101, 46, 66>> >>

\* The smallest zero-based position in the canonical sequence of a channel
\* whose suffix equals, ignoring case, one of the two names; -1 for none.
FirstNamed(names, n1, n2) ==
    LET hits == {c \in 0..(Len(names) - 1) :
                    \/ iequals(split_name(names[c + 1]).suffix, n1)
                    \/ iequals(split_name(names[c + 1]).suffix, n2)}
    IN  IF hits = {} THEN 0 - 1
        ELSE CHOOSE c \in hits : \A d \in hits : c <= d

\* C11: after query_channels, alpha_channel is the smallest canonical index
\* whose suffix is "A" or "Alpha" ignoring case, z_channel the smallest
\* whose suffix is "Z" or "Depth" ignoring case, and each is -1 when no
\* channel matches.
C11_AlphaDepth ==
    chan.pc = "done" =>
        LET sp == chan.res.part.spec
        IN  /\ sp.alpha_channel = FirstNamed(sp.channelnames, str_A, str_Alpha)
            /\ sp.z_channel = FirstNamed(sp.channelnames, str_Z, str_Depth)

\* The call has returned for {alpha, A, DEPTH, Z}: alpha is the position of
\* A, before alpha, and depth the position of Z, before DEPTH.
C11_Witness ==
    /\ chan.pc = "done"
    /\ Range(chan.input) = AlphaDepthSet
    /\ chan.res.part.spec.alpha_channel = 0
    /\ chan.res.part.spec.z_channel = 2

\* The call has returned for {R, G, B, A}: alpha is the position of A, and
\* there is no depth channel.
C11_Witness_RGBA ==
    /\ chan.pc = "done"
    /\ Range(chan.input) = RGBASet
    /\ chan.res.part.spec.alpha_channel = 3
    /\ chan.res.part.spec.z_channel = 0 - 1

-----------------------------------------------------------------------------
(* The file behind an open handle: what the codec context answers.         *)

Box(minx, miny, maxx, maxy) ==
    [minx |-> minx, miny |-> miny, maxx |-> maxx, maxy |-> maxy]

\* The header of one part.  `fail` names the query of parse_header that
\* returns an error for this part ("none": every query succeeds); a header
\* is part of the file, so a query answers the same on every call.
Header(fail, storage, levelmode, levels, entries) ==
    [fail |-> fail,
     dataWindow |-> Box(0, 0, 3, 3),
     displayWindow |-> Box(0, 0, 3, 3),
     storage |-> storage,
     txsz |-> 2, tysz |-> 2,
     levelmode |-> levelmode,
     roundingmode |-> "EXR_TILE_ROUND_DOWN",
     levelsx |-> levels, levelsy |-> levels,
     chlist |-> [rv |-> IF fail = "channels" THEN "EXR_ERR_NO_ATTR_BY_NAME"
                        ELSE "EXR_ERR_SUCCESS",
                 entries |-> entries],
     envmap |-> "none"]

H_scan ==
    Header("none", "EXR_STORAGE_SCANLINE", "EXR_TILE_ONE_LEVEL", 1,
           << Chan(<<66>>, "EXR_PIXEL_HALF", 1, 1),
              Chan(<<71>>, "EXR_PIXEL_HALF", 1, 1),
              Chan(<<82>>, "EXR_PIXEL_HALF", 1, 1) >>)

H_mip ==
    Header("none", "EXR_STORAGE_TILED", "EXR_TILE_MIPMAP_LEVELS", 3,
           << Chan(<<82>>, "EXR_PIXEL_HALF", 1, 1),
              Chan(<<90>>, "EXR_PIXEL_FLOAT", 1, 1) >>)

\* A tiled part one of whose header queries fails.
H_bad(fail) ==
    Header(fail, "EXR_STORAGE_TILED", "EXR_TILE_MIPMAP_LEVELS", 2,
           << Chan(<<65>>, "EXR_PIXEL_HALF", 1, 1) >>)

\* A part with two subsampled channels (U in x and y, V in y only) and one
\* that is not, and a part with no channel.
H_subsampled ==
    Header("none", "EXR_STORAGE_SCANLINE", "EXR_TILE_ONE_LEVEL", 1,
           << Chan(<<85>>, "EXR_PIXEL_HALF", 2, 2),
              Chan(<<89>>, "EXR_PIXEL_HALF", 1, 1),
              Chan(<<86>>, "EXR_PIXEL_HALF", 1, 2) >>)

H_nochannels ==
    Header("none", "EXR_STORAGE_SCANLINE", "EXR_TILE_ONE_LEVEL", 1, <<>>)

\* The header queries of parse_header that can return an error.
FailKinds ==
    {"data_window", "display_window", "storage", "tile_levels", "channels",
     "attr_count", "attr_index"}

ExrFile(name, start_rv, parts) ==
    [name |-> name, start_rv |-> start_rv, parts |-> parts]

\* The files a handle is opened on.
Files ==
    { ExrFile("two_parts", "EXR_ERR_SUCCESS", <<H_scan, H_mip>>),
      ExrFile("one_part", "EXR_ERR_SUCCESS", <<H_mip>>),
      ExrFile("subsampled", "EXR_ERR_SUCCESS", <<H_scan, H_subsampled>>),
      ExrFile("nochannels", "EXR_ERR_SUCCESS", <<H_mip, H_nochannels>>),
      ExrFile("bad_first", "EXR_ERR_SUCCESS", <<H_bad("display_window")>>),
      ExrFile("not_exr", "EXR_ERR_FILE_BAD_HEADER", <<>>) }
        \cup { ExrFile(k, "EXR_ERR_SUCCESS", <<H_scan, H_bad(k)>>) :
               k \in FailKinds }

-----------------------------------------------------------------------------
(* PartInfo: compute_mipres and parse_header.                              *)

\* The halving loop without the clamp of lines 1255-1256.
RECURSIVE MipHalve_noclamp(_, _, _)
MipHalve_noclamp(w, m, roundingmode) ==
    IF m = 0 THEN w
    ELSE MipHalve_noclamp(IF roundingmode = "EXR_TILE_ROUND_DOWN"
                          THEN w \div 2 ELSE (w + 1) \div 2,
                          m - 1, roundingmode)

\* OpenEXRInput::PartInfo::compute_mipres: the halving loop, m steps left.
RECURSIVE MipHalve(_, _, _)
MipHalve(w, m, roundingmode) ==
    IF m = 0 THEN w
    ELSE MipHalve(Max(1, IF roundingmode = "EXR_TILE_ROUND_DOWN"
                         THEN w \div 2 ELSE (w + 1) \div 2),
                  m - 1, roundingmode)

\* compute_mipres with the full rectangle taken from the display window at
\* every level.
compute_mipres_display(part, miplevel, spec) ==
    IF part.levelmode = "EXR_TILE_ONE_LEVEL" THEN spec
    ELSE
    LET mip == part.levelmode = "EXR_TILE_MIPMAP_LEVELS"
        w == IF mip THEN MipHalve(part.topwidth, miplevel, part.roundingmode)
             ELSE part.topwidth
        h == IF mip THEN MipHalve(part.topheight, miplevel, part.roundingmode)
             ELSE part.topheight
        dw == part.top_datawindow
        disp == part.top_displaywindow
        s1 == [spec EXCEPT !.width = w, !.height = h,
                           !.x = dw.minx, !.y = dw.miny]
        s2 == [s1 EXCEPT !.full_x = disp.minx, !.full_y = disp.miny,
                         !.full_width = disp.maxx - disp.minx + 1,
                         !.full_height = disp.maxy - disp.miny + 1]
    IN  IF part.cubeface
        THEN [s2 EXCEPT !.full_width = w, !.full_height = w]
        ELSE s2

\* OpenEXRInput::PartInfo::compute_mipres(miplevel, spec)
compute_mipres(part, miplevel, spec) ==
    IF part.levelmode = "EXR_TILE_ONE_LEVEL" THEN spec
    ELSE
    LET mip == part.levelmode = "EXR_TILE_MIPMAP_LEVELS"
        w == IF mip THEN MipHalve(part.topwidth, miplevel, part.roundingmode)
             ELSE part.topwidth
        h == IF mip THEN MipHalve(part.topheight, miplevel, part.roundingmode)
             ELSE part.topheight
        dw == part.top_datawindow
        disp == part.top_displaywindow
        s1 == [spec EXCEPT !.width = w, !.height = h,
                           !.x = dw.minx, !.y = dw.miny]
        s2 == IF miplevel = 0
              THEN [s1 EXCEPT !.full_x = disp.minx, !.full_y = disp.miny,
                              !.full_width = disp.maxx - disp.minx + 1,
                              !.full_height = disp.maxy - disp.miny + 1]
              ELSE [s1 EXCEPT !.full_x = s1.x, !.full_y = s1.y,
                              !.full_width = s1.width,
                              !.full_height = s1.height]
    IN  IF part.cubeface
        THEN [s2 EXCEPT !.full_width = w, !.full_height = w]
        ELSE s2

\* parse_header, line 732: under the lock, the part's spec is reset.
ParseHeaderReset(part) == [part EXCEPT !.spec = ImageSpecDefault]

\* parse_header, lines 734-1011, on the header hdr: the possible results
\* [ok, part, errs].  Each failing query returns with the fields written so
\* far; only the last line sets initialized.  (The attributes copied to the
\* spec by lines 786-1008 are not part of the model's ImageSpec.)
ParseHeaderRest(part, hdr) ==
    LET fails(p) == {[ok |-> FALSE, part |-> p, errs |-> <<>>]}
        p1 == [part EXCEPT !.top_datawindow = hdr.dataWindow]
        p2 == [p1 EXCEPT !.top_displaywindow = hdr.displayWindow]
        dw == hdr.dataWindow
        disp == hdr.displayWindow
        p3 == [p2 EXCEPT
                 !.spec.x = dw.minx, !.spec.y = dw.miny,
                 !.spec.width = dw.maxx - dw.minx + 1,
                 !.spec.height = dw.maxy - dw.miny + 1,
                 !.topwidth = dw.maxx - dw.minx + 1,
                 !.topheight = dw.maxy - dw.miny + 1,
                 !.spec.full_x = disp.minx, !.spec.full_y = disp.miny,
                 !.spec.full_width = disp.maxx - disp.minx + 1,
                 !.spec.full_height = disp.maxy - disp.miny + 1]
        tiled == hdr.storage \in {"EXR_STORAGE_TILED", "EXR_STORAGE_DEEP_TILED"}
        p4t == [p3 EXCEPT !.levelmode = hdr.levelmode,
                          !.roundingmode = hdr.roundingmode,
                          !.spec.tile_width = hdr.txsz,
                          !.spec.tile_height = hdr.tysz]
        p4 == IF tiled
              THEN [p4t EXCEPT !.nmiplevels = Max(hdr.levelsx, hdr.levelsy)]
              ELSE [p3 EXCEPT !.spec.tile_width = 0, !.spec.tile_height = 0,
                              !.levelmode = "EXR_TILE_ONE_LEVEL",
                              !.nmiplevels = 1]
        finish(p) ==
            [p EXCEPT
               !.spec.deep = hdr.storage \in {"EXR_STORAGE_DEEP_TILED",
                                              "EXR_STORAGE_DEEP_SCANLINE"},
               !.cubeface = (hdr.envmap = "cube")]
    IN  IF hdr.fail = "data_window" THEN fails(part)
        ELSE IF hdr.fail = "display_window" THEN fails(p1)
        ELSE IF hdr.fail = "storage" THEN fails(p3)
        ELSE IF tiled /\ hdr.fail = "tile_levels" THEN fails(p4t)
        ELSE UNION {
            IF ~r.ok THEN {r}
            ELSE IF hdr.fail \in {"attr_count", "attr_index"}
            THEN {[ok |-> FALSE, part |-> finish(r.part), errs |-> r.errs]}
            ELSE {[ok |-> TRUE,
                   part |-> [finish(r.part) EXCEPT !.initialized = TRUE],
                   errs |-> r.errs]} :
            r \in query_channels(p4, hdr.chlist) }

-----------------------------------------------------------------------------
(* SpecPart: one handle, its concurrent callers.                           *)

\* The callers that share the handle.
Callers == {"t1", "t2"}

\* The arguments callers pass: a subimage that no file has is among them.
SubimageArgs == {0, 1, 2}
MiplevelArgs == {0, 1, 3}

\* The miplevel argument of a call that has not read it yet.
NotRead == -1

\* What a call returns: a bool (open, seek_subimage) or an ImageSpec (spec,
\* spec_dimensions, init_part).
NoRet == [kind |-> "none", ok |-> FALSE, spec |-> ImageSpecDefault]
BoolRet(b) == [kind |-> "bool", ok |-> b, spec |-> ImageSpecDefault]
SpecRet(sp) == [kind |-> "spec", ok |-> TRUE, spec |-> sp]
\* `ImageSpec ret; ... return ret;  // invalid`
InvalidRet == [kind |-> "spec", ok |-> FALSE, spec |-> ImageSpecDefault]

\* A caller: where it is in its call (pc), the call and its arguments, what
\* its seek_subimage returned ("none", "true", "false"), what the call
\* returned, how many header parses the call began and whether one failed,
\* and the channels named by the errors the call reported (errorf).
IdleCall ==
    [pc |-> "idle", op |-> "none", sub |-> 0, mip |-> NotRead,
     ret |-> NoRet, seekret |-> "none", nparse |-> 0, parse_failed |-> FALSE,
     errs |-> <<>>]

\* ImageInput::lock / unlock: the handle's mutex is recursive.
LockFree == [owner |-> "none", depth |-> 0]
CanLock(L, t) == L.owner \in {"none", t}
Locked(L, t) == [owner |-> t, depth |-> L.depth + 1]
Unlocked(L) ==
    IF L.depth = 1 THEN LockFree ELSE [L EXCEPT !.depth = L.depth - 1]

\* m_parts[subimage]
PartOf(h, sub) == h.m_parts[sub + 1]

\* std::vector::resize(n): the first n elements are kept, new ones are
\* default-constructed.
Resize(v, n) ==
    [i \in 1..n |-> IF i <= Len(v) THEN v[i] ELSE PartInfoDefault]

\* OpenEXRInput::close: exr_finish, then init().
close(h) == [h EXCEPT !.m_exr_context = "null"]

\* The state after construction: init() has run; m_nsubimages, m_subimage and
\* m_miplevel have no initializer.
InitPart ==
    /\ \E n \in {0, 1}, s \in {-1, 0} :
          hnd = [m_exr_context |-> "null", file |-> "none", m_nsubimages |-> n,
                 m_parts |-> <<>>, m_subimage |-> s, m_miplevel |-> s,
                 m_spec |-> ImageSpecDefault]
    /\ thr = [t \in Callers |-> IdleCall]
    /\ lock = LockFree
    /\ ghost = [parsed |-> <<>>, begun |-> <<>>, failed |-> <<>>,
                opens |-> 0, sessions |-> 1]
    /\ chan = ChanOff
    /\ scan = ScanOff
    /\ tiles = TilesOff
    /\ call = CallOff

Busy(t) == thr[t].pc # "idle"

\* What follows the return of seek_subimage with result sr, the handle then
\* being h and the lock L: the rest of the caller (open, lines 693-697;
\* init_part, lines 711-718; spec, lines 1337-1340; spec_dimensions, lines
\* 1361-1363), which leaves the scope of its lock_guard.
AfterSeek(t, sr, h, L, c) ==
    LET srs == IF sr THEN "true" ELSE "false"
        done(r) == [c EXCEPT !.pc = "done", !.ret = r, !.seekret = srs]
    IN  CASE c.op = "seek_subimage" ->
               /\ hnd' = h /\ lock' = L
               /\ thr' = [thr EXCEPT ![t] = done(BoolRet(sr))]
          [] c.op = "open" ->
               /\ hnd' = IF sr THEN h ELSE close(h)
               /\ lock' = L
               /\ thr' = [thr EXCEPT ![t] = done(BoolRet(sr))]
          [] c.op = "init_part" ->
               /\ hnd' = h /\ lock' = Unlocked(L)
               /\ thr' = [thr EXCEPT ![t] =
                            done(SpecRet(PartOf(h, c.sub).spec))]
          [] c.op \in {"spec", "spec_dimensions"} ->
               /\ hnd' = h /\ lock' = Unlocked(L)
               /\ thr' = [thr EXCEPT ![t] =
                            IF sr THEN [c EXCEPT !.pc = "outer_tail",
                                                 !.seekret = srs]
                            ELSE done(InvalidRet)]

\* OpenEXRInput::open up to its call of seek_subimage(0, 0).  No other call
\* runs on the handle while it is being opened.  The handle is followed
\* through ghost.sessions open files: one in SpecPart.
Open(t, f) ==
    /\ \A u \in Callers : ~Busy(u)
    /\ hnd.m_exr_context = "null"
    /\ ghost.opens < ghost.sessions
    /\ LET h0 == [hnd EXCEPT !.m_spec = ImageSpecDefault]
       IN  IF f.start_rv # "EXR_ERR_SUCCESS"
           THEN /\ hnd' = h0
                /\ thr' = [thr EXCEPT ![t] =
                             [IdleCall EXCEPT !.pc = "done", !.op = "open",
                                              !.ret = BoolRet(FALSE)]]
                /\ ghost' = [ghost EXCEPT !.opens = @ + 1]
           ELSE /\ hnd' = [h0 EXCEPT
                             !.m_exr_context = f.name,
                             !.file = f,
                             !.m_nsubimages = Len(f.parts),
                             !.m_parts = Resize(@, Len(f.parts)),
                             !.m_subimage = -1,
                             !.m_miplevel = -1]
                /\ thr' = [thr EXCEPT ![t] =
                             [IdleCall EXCEPT !.pc = "seek_check",
                                              !.op = "open"]]
                /\ ghost' = [parsed |-> [i \in 1..Len(f.parts) |-> 0],
                             begun |-> [i \in 1..Len(f.parts) |-> 0],
                             failed |-> [i \in 1..Len(f.parts) |-> FALSE],
                             opens |-> ghost.opens + 1,
                             sessions |-> ghost.sessions]
    /\ UNCHANGED <<lock, chan, scan, tiles, call>>

\* OpenEXRInput::close, called when no other call runs on the handle.
Close ==
    /\ \A u \in Callers : ~Busy(u)
    /\ hnd.m_exr_context # "null"
    /\ hnd' = close(hnd)
    /\ UNCHANGED <<thr, lock, ghost, chan, scan, tiles, call>>

\* A caller enters seek_subimage, spec, spec_dimensions, or (from a
\* read_native_* call on a part of the file) init_part.  The miplevel it
\* passes is first read by lines 1306, 1341 and 1364: the model draws it
\* there (SeekTail, OuterTail).
Call(t, op, sub) ==
    /\ thr[t].pc = "idle"
    /\ hnd.m_exr_context # "null"
    /\ \A u \in Callers : thr[u].op # "open"
    /\ op = "init_part" => sub < hnd.m_nsubimages
    /\ sub < hnd.m_nsubimages => ghost.begun[sub + 1] < MaxParses
    /\ thr' = [thr EXCEPT ![t] =
                 [IdleCall EXCEPT
                    !.pc = IF op = "seek_subimage" THEN "seek_check"
                           ELSE "outer_check",
                    !.op = op, !.sub = sub]]
    /\ UNCHANGED <<hnd, lock, ghost, chan, scan, tiles, call>>

\* spec, lines 1329-1332; spec_dimensions, lines 1354-1357; init_part, lines
\* 705-706: the range check and the first, unlocked look at initialized.
OuterCheck(t) ==
    /\ thr[t].pc = "outer_check"
    /\ LET c == thr[t]
       IN  thr' = [thr EXCEPT ![t] =
             IF c.op # "init_part" /\ (c.sub < 0 \/ c.sub >= hnd.m_nsubimages)
             THEN [c EXCEPT !.pc = "done", !.ret = InvalidRet]
             ELSE IF PartOf(hnd, c.sub).initialized
             THEN [c EXCEPT !.pc = "outer_tail"]
             ELSE [c EXCEPT !.pc = "outer_lock"]]
    /\ UNCHANGED <<hnd, lock, ghost, chan, scan, tiles, call>>

\* lock_guard lock(*this), lines 709, 1335, 1360.
OuterLock(t) ==
    /\ thr[t].pc = "outer_lock"
    /\ CanLock(lock, t)
    /\ lock' = Locked(lock, t)
    /\ thr' = [thr EXCEPT ![t].pc =
                 IF thr[t].op = "spec_dimensions" THEN "seek_check"
                 ELSE "outer_recheck"]
    /\ UNCHANGED <<hnd, ghost, chan, scan, tiles, call>>

\* The second look at initialized, under the lock (lines 710, 1336).
OuterRecheck(t) ==
    /\ thr[t].pc = "outer_recheck"
    /\ IF PartOf(hnd, thr[t].sub).initialized
       THEN /\ lock' = Unlocked(lock)
            /\ thr' = [thr EXCEPT ![t].pc =
                         IF thr[t].op = "init_part" THEN "init_part_ret"
                         ELSE "outer_tail"]
       ELSE /\ lock' = lock
            /\ thr' = [thr EXCEPT ![t].pc = "seek_check"]
    /\ UNCHANGED <<hnd, ghost, chan, scan, tiles, call>>

\* seek_subimage, lines 1294-1298: the range check and its look at
\* initialized.
SeekCheck(t) ==
    /\ thr[t].pc = "seek_check"
    /\ LET c == thr[t]
       IN  IF c.sub < 0 \/ c.sub >= hnd.m_nsubimages
           THEN AfterSeek(t, FALSE, hnd, lock, c)
           ELSE /\ thr' = [thr EXCEPT ![t].pc =
                             IF PartOf(hnd, c.sub).initialized
                             THEN "seek_tail" ELSE "parse_check"]
                /\ UNCHANGED <<hnd, lock>>
    /\ UNCHANGED <<ghost, chan, scan, tiles, call>>

\* parse_header, lines 727-729: its own look at initialized, before it takes
\* the lock.
ParseCheck(t) ==
    /\ thr[t].pc = "parse_check"
    /\ thr' = [thr EXCEPT ![t].pc =
                 IF PartOf(hnd, thr[t].sub).initialized
                 THEN "seek_setinit" ELSE "parse_lock"]
    /\ UNCHANGED <<hnd, lock, ghost, chan, scan, tiles, call>>

\* parse_header, lines 731-732: the lock is taken and the spec reset.
ParseBegin(t) ==
    /\ thr[t].pc = "parse_lock"
    /\ CanLock(lock, t)
    /\ lock' = Locked(lock, t)
    /\ hnd' = [hnd EXCEPT !.m_parts[thr[t].sub + 1] = ParseHeaderReset(@)]
    /\ thr' = [thr EXCEPT ![t].pc = "parse_rest",
                          ![t].nparse = @ + 1]
    /\ ghost' = [ghost EXCEPT !.begun[thr[t].sub + 1] = @ + 1]
    /\ UNCHANGED <<chan, scan, tiles, call>>

\* seek_subimage ignoring what parse_header returns.
ParseFailed_ignored(r) == FALSE

\* seek_subimage, lines 1299-1300: `if (!part.parse_header(...)) return false;`
ParseFailed(r) == ~r.ok

\* parse_header, lines 734-1011, and its return to seek_subimage (lines
\* 1299-1300), which leaves the scope of parse_header's lock_guard.
ParseRest(t) ==
    /\ thr[t].pc = "parse_rest"
    /\ LET c == thr[t]
           i == c.sub + 1
       IN  \E r \in ParseHeaderRest(hnd.m_parts[i], hnd.file.parts[i]) :
             LET h == [hnd EXCEPT !.m_parts[i] = r.part]
                 g == [ghost EXCEPT
                         !.parsed[i] = IF r.ok THEN @ + 1 ELSE @,
                         !.failed[i] = @ \/ ~r.ok]
             IN  IF ParseFailed(r)
                 THEN /\ AfterSeek(t, FALSE, h, Unlocked(lock),
                                   [c EXCEPT !.parse_failed = TRUE,
                                             !.errs = @ \o r.errs])
                      /\ ghost' = g
                 ELSE /\ hnd' = h
                      /\ lock' = Unlocked(lock)
                      /\ thr' = [thr EXCEPT ![t].pc = "seek_setinit",
                                            ![t].parse_failed = ~r.ok,
                                            ![t].errs = @ \o r.errs]
                      /\ ghost' = g
    /\ UNCHANGED <<chan, scan, tiles, call>>

\* seek_subimage, line 1301.
SeekSetInit(t) ==
    /\ thr[t].pc = "seek_setinit"
    /\ hnd' = [hnd EXCEPT !.m_parts[thr[t].sub + 1].initialized = TRUE]
    /\ thr' = [thr EXCEPT ![t].pc = "seek_tail"]
    /\ UNCHANGED <<lock, ghost, chan, scan, tiles, call>>

\* seek_subimage, lines 1304-1320: the seek position.
SeekPosition(h, sub, mip) ==
    LET part == PartOf(h, sub)
        h1 == [h EXCEPT !.m_subimage = sub]
    IN  IF mip < 0 \/ mip >= part.nmiplevels
        THEN [ok |-> FALSE, h |-> h1]
        ELSE [ok |-> TRUE,
              h |-> [h1 EXCEPT
                       !.m_miplevel = mip,
                       !.m_spec =
                          IF mip = 0 /\ part.levelmode = "EXR_TILE_ONE_LEVEL"
                          THEN part.spec
                          ELSE compute_mipres(part, mip, part.spec)]]

SeekTail(t, mip) ==
    /\ thr[t].pc = "seek_tail"
    /\ thr[t].op = "open" => mip = 0
    /\ LET r == SeekPosition(hnd, thr[t].sub, mip)
       IN  AfterSeek(t, r.ok, r.h, lock, [thr[t] EXCEPT !.mip = mip])
    /\ UNCHANGED <<ghost, chan, scan, tiles, call>>

\* spec, lines 1341-1345, and spec_dimensions, lines 1364-1368: the part is
\* read without the lock.
OuterTail(t, mip) ==
    /\ thr[t].pc = "outer_tail"
    /\ thr[t].mip = NotRead \/ mip = thr[t].mip
    /\ LET c == [thr[t] EXCEPT !.mip = mip]
           part == PartOf(hnd, c.sub)
       IN  thr' = [thr EXCEPT ![t] =
             [c EXCEPT !.pc = "done",
                       !.ret = IF c.mip < 0 \/ c.mip >= part.nmiplevels
                               THEN InvalidRet
                               ELSE SpecRet(compute_mipres(part, c.mip,
                                                           part.spec))]]
    /\ UNCHANGED <<hnd, lock, ghost, chan, scan, tiles, call>>

\* init_part, line 718, when the part was found initialized.
InitPartRet(t) ==
    /\ thr[t].pc = "init_part_ret"
    /\ thr' = [thr EXCEPT ![t].pc = "done",
                          ![t].ret = SpecRet(PartOf(hnd, thr[t].sub).spec)]
    /\ UNCHANGED <<hnd, lock, ghost, chan, scan, tiles, call>>

\* The call has returned to its caller.
Finish(t) ==
    /\ thr[t].pc = "done"
    /\ thr' = [thr EXCEPT ![t] = IdleCall]
    /\ UNCHANGED <<hnd, lock, ghost, chan, scan, tiles, call>>

NextPart ==
    \/ \E t \in Callers, f \in Files : Open(t, f)
    \/ Close
    \/ \E t \in Callers, sub \in SubimageArgs,
          op \in {"seek_subimage", "spec", "spec_dimensions", "init_part"} :
          Call(t, op, sub)
    \/ \E t \in Callers : OuterCheck(t)
    \/ \E t \in Callers : OuterLock(t)
    \/ \E t \in Callers : OuterRecheck(t)
    \/ \E t \in Callers : SeekCheck(t)
    \/ \E t \in Callers : ParseCheck(t)
    \/ \E t \in Callers : ParseBegin(t)
    \/ \E t \in Callers : ParseRest(t)
    \/ \E t \in Callers : SeekSetInit(t)
    \/ \E t \in Callers, mip \in MiplevelArgs : SeekTail(t, mip)
    \/ \E t \in Callers, mip \in MiplevelArgs : OuterTail(t, mip)
    \/ \E t \in Callers : InitPartRet(t)
    \/ \E t \in Callers : Finish(t)

SpecPart == InitPart /\ [][NextPart]_vars

-----------------------------------------------------------------------------
(* Claims about the parts of an open handle (SpecPart).                    *)

\* C1: under any interleaving of seek_subimage, spec, spec_dimensions and
\* read_native_* calls on a part, the header parse of the part runs to its
\* end at most once.
C1_ParseOnce ==
    \A i \in 1..Len(ghost.parsed) : ghost.parsed[i] <= 1

\* C2: while the handle is open, no step writes a field of a part whose
\* initialized flag is true, and the flag does not return to false.
C2_InitializedImmutable ==
    [][hnd.m_exr_context # "null" =>
         \A i \in 1..Len(hnd.m_parts) :
             hnd.m_parts[i].initialized =>
                 hnd'.m_parts[i] = hnd.m_parts[i]]_vars

\* C3: when the header parse of a part fails, the seek_subimage that ran it
\* returns false and so the call reports failure, the part's initialized
\* flag is false afterwards, and the call began no second parse.
C3_ParseFailure ==
    /\ \A t \in Callers :
          thr[t].parse_failed =>
              /\ thr[t].pc = "done"
              /\ thr[t].seekret = "false"
              /\ thr[t].nparse = 1
              /\ thr[t].op \in {"open", "seek_subimage"}
                    => thr[t].ret = BoolRet(FALSE)
              /\ thr[t].op \in {"spec", "spec_dimensions"}
                    => thr[t].ret = InvalidRet
              /\ ~PartOf(hnd, thr[t].sub).initialized
    /\ \A i \in 1..Len(ghost.failed) :
          ghost.failed[i] => ~hnd.m_parts[i].initialized

\* A spec() call on the second part of a file has returned after the parse
\* it ran failed in the channel catalogue, and another caller's call on the
\* same part is under way.
C3_Witness ==
    \E t, u \in Callers :
        /\ t # u
        /\ thr[t].pc = "done" /\ thr[t].op = "spec" /\ thr[t].sub = 1
        /\ thr[t].parse_failed
        /\ hnd.file.name = "subsampled"
        /\ thr[u].pc = "parse_lock" /\ thr[u].sub = 1

\* The names of the channels of a header whose sampling is not 1 x 1.
Offenders(hdr) ==
    {hdr.chlist.entries[i].name : i \in
        {j \in 1..Len(hdr.chlist.entries) :
            \/ hdr.chlist.entries[j].x_sampling # 1
            \/ hdr.chlist.entries[j].y_sampling # 1}}

\* C12: a part with a channel whose x or y sampling is not 1 is never marked
\* initialized, and the seek_subimage of every call on it fails (so open and
\* seek_subimage return false, spec and spec_dimensions an invalid spec)
\* after reporting one error for each such channel, naming it.
C12_SubsampledRejected ==
    hnd.m_exr_context # "null" =>
        /\ \A i \in 1..Len(hnd.file.parts) :
              Offenders(hnd.file.parts[i]) # {}
                  => ~hnd.m_parts[i].initialized
        /\ \A t \in Callers :
              LET c == thr[t]
              IN  (/\ c.pc = "done"
                   /\ c.sub < Len(hnd.file.parts)
                   /\ hnd.file.parts[c.sub + 1].fail = "none"
                   /\ Offenders(hnd.file.parts[c.sub + 1]) # {})
                  => /\ c.seekret = "false"
                     /\ c.op \in {"open", "seek_subimage"}
                           => c.ret = BoolRet(FALSE)
                     /\ c.op \in {"spec", "spec_dimensions"}
                           => c.ret = InvalidRet
                     /\ Range(c.errs) = Offenders(hnd.file.parts[c.sub + 1])
                     /\ Len(c.errs)
                           = Cardinality(Offenders(hnd.file.parts[c.sub + 1]))

\* A seek_subimage to the part with subsampled channels U and V has returned
\* false with both named.
C12_Witness ==
    \E t \in Callers :
        /\ hnd.m_exr_context = "subsampled"
        /\ thr[t].pc = "done" /\ thr[t].op = "seek_subimage"
        /\ thr[t].sub = 1
        /\ Len(thr[t].errs) = 2
        /\ thr[t].ret = BoolRet(FALSE)

-----------------------------------------------------------------------------
(* Memory written by the chunked reads, and the decode pipeline.           *)

\* Each tile read is followed until the codec has failed on this many tiles.
MaxFailures == 2

\* A byte of a buffer, as what was last stored there: nothing, byte b of
\* channel c of the file's pixel (x, y), or byte b of the value v stored as
\* type t by check_fill_missing.
Untouched ==
    [k |-> "untouched", x |-> 0, y |-> 0, c |-> 0, b |-> 0, v |-> 0,
     t |-> "UNKNOWN"]
DecodedByte(x, y, c, b) ==
    [k |-> "decoded", x |-> x, y |-> y, c |-> c, b |-> b, v |-> 0,
     t |-> "UNKNOWN"]
FillByte(v, t, b) ==
    [k |-> "fill", x |-> 0, y |-> 0, c |-> 0, b |-> b, v |-> v, t |-> t]

\* void* data: n bytes the caller owns. over collects the offsets outside
\* them that a store reached.
Buffer(n) == [mem |-> [o \in 0..(n - 1) |-> Untouched], over |-> {}]

\* A sequence of stores applied to a buffer. A store is [key, off, bytes];
\* where two stores overlap, the one with the larger key is the later one.
Store(buf, stores) ==
    LET at(o) == {w \in stores : w.off <= o /\ o < w.off + Len(w.bytes)}
        last(o) == CHOOSE w \in at(o) : \A u \in at(o) : u.key <= w.key
        reached == UNION {w.off..(w.off + Len(w.bytes) - 1) : w \in stores}
    IN  [mem |-> [o \in DOMAIN buf.mem |->
                    IF at(o) = {} THEN buf.mem[o]
                    ELSE last(o).bytes[o - last(o).off + 1]],
         over |-> buf.over \cup (reached \ DOMAIN buf.mem)]

\* ImageSpec::pixel_bytes(chbegin, chend, native = true)
RECURSIVE pixel_bytes(_, _, _)
pixel_bytes(spec, chbegin, chend) ==
    IF chbegin >= chend THEN 0
    ELSE TypeSize(channelformat(spec, chend - 1))
            + pixel_bytes(spec, chbegin, chend - 1)

clamp(a, lo, hi) == IF a < lo THEN lo ELSE IF a > hi THEN hi ELSE a

\* exr_decode_pipeline_t decoder = { 0 }, with the history of the calls made
\* on it: initializations that succeeded, initializations begun while the
\* pipeline was live, destructions of a live pipeline, routine selections.
DecoderZero ==
    [state |-> "zero", inits |-> 0, reinits |-> 0, destroys |-> 0,
     updates |-> 0, chooses |-> 0]

exr_decoding_initialize(d, ok) ==
    [d EXCEPT !.reinits = IF d.state = "live" THEN @ + 1 ELSE @,
              !.inits = IF ok THEN @ + 1 ELSE @,
              !.state = IF ok THEN "live" ELSE @]

exr_decoding_update(d, ok) == [d EXCEPT !.updates = @ + 1]

exr_decoding_choose_default_routines(d, ok) == [d EXCEPT !.chooses = @ + 1]

exr_decoding_destroy(d) ==
    IF d.state = "live"
    THEN [d EXCEPT !.state = "destroyed", !.destroys = @ + 1]
    ELSE d

\* exr_decoding_run on a pipeline whose channels chbegin..chend-1 were bound
\* to start + their offset in the pixel, with the given strides: the w x h
\* pixels of the chunk at (x0, y0) are stored.
exr_decoding_run(buf, spec, chbegin, chend, start, pixelbytes, linebytes, x0, y0, w, h) ==
    Store(buf,
          {[key |-> 0,
            off |-> start + j * linebytes + i * pixelbytes
                       + pixel_bytes(spec, chbegin, c),
            bytes |-> [b \in 1..TypeSize(channelformat(spec, c)) |->
                          DecodedByte(x0 + i, y0 + j, c, b)]] :
              i \in 0..(w - 1), j \in 0..(h - 1), c \in chbegin..(chend - 1)})

\* check_fill_missing with the stripe test applied to channel 0 only.
check_fill_missing_stripe0(m_missingcolor, m_spec, xbegin, xend, ybegin, yend, chbegin, chend, buf, data, xstride, ystride) ==
    IF m_missingcolor = <<>> THEN [ret |-> FALSE, buf |-> buf]
    ELSE
      LET n == Len(m_missingcolor)
          missingcolor(ch) ==
              IF ch = 0 /\ m_missingcolor[1] < 0 THEN 0 - m_missingcolor[1]
              ELSE IF ch < n THEN m_missingcolor[ch + 1]
              ELSE m_missingcolor[n]
          stripe == m_missingcolor[1] < 0
          bit8(x, y) == ((x - y) % 16) >= 8
          v(x, y, ch) == IF stripe /\ bit8(x, y) /\ ch = 0 THEN 0
                         ELSE missingcolor(ch)
          cf(ch) == channelformat(m_spec, ch)
          d(ch) == pixel_bytes(m_spec, chbegin, ch)
          W == xend - xbegin
          C == chend - chbegin
      IN  [ret |-> TRUE,
           buf |-> Store(buf,
              {[key |-> ((y - ybegin) * W + (x - xbegin)) * C + (ch - chbegin),
                off |-> data + (y - ybegin) * ystride + (x - xbegin) * xstride
                           + d(ch),
                bytes |-> [b \in 1..TypeSize(cf(ch)) |->
                              FillByte(v(x, y, ch), cf(ch), b)]] :
                 <<x, y, ch>> \in
                    {q \in (xbegin..(xend - 1)) \X (ybegin..(yend - 1))
                              \X (chbegin..(chend - 1)) :
                        cf(q[3]) \in {"FLOAT", "HALF"}}})]

\* OpenEXRInput::check_fill_missing, with data given as the offset of the
\* region in the buffer. The result is its return value and the buffer.
check_fill_missing(m_missingcolor, m_spec, xbegin, xend, ybegin, yend, chbegin, chend, buf, data, xstride, ystride) ==
    IF m_missingcolor = <<>> THEN [ret |-> FALSE, buf |-> buf]
    ELSE
      LET n == Len(m_missingcolor)
          missingcolor(ch) ==
              IF ch = 0 /\ m_missingcolor[1] < 0 THEN 0 - m_missingcolor[1]
              ELSE IF ch < n THEN m_missingcolor[ch + 1]
              ELSE m_missingcolor[n]
          stripe == m_missingcolor[1] < 0
          \* (x - y) & 8 on 32-bit two's complement integers
          bit8(x, y) == ((x - y) % 16) >= 8
          v(x, y, ch) == IF stripe /\ bit8(x, y) THEN 0 ELSE missingcolor(ch)
          cf(ch) == channelformat(m_spec, ch)
          \* d after the channels chbegin..ch-1: d += cf.size()
          d(ch) == pixel_bytes(m_spec, chbegin, ch)
          W == xend - xbegin
          C == chend - chbegin
      IN  [ret |-> TRUE,
           buf |-> Store(buf,
              {[key |-> ((y - ybegin) * W + (x - xbegin)) * C + (ch - chbegin),
                off |-> data + (y - ybegin) * ystride + (x - xbegin) * xstride
                           + d(ch),
                bytes |-> [b \in 1..TypeSize(cf(ch)) |->
                              FillByte(v(x, y, ch), cf(ch), b)]] :
                 <<x, y, ch>> \in
                    {q \in (xbegin..(xend - 1)) \X (ybegin..(yend - 1))
                              \X (chbegin..(chend - 1)) :
                        cf(q[3]) \in {"FLOAT", "HALF"}}})]

-----------------------------------------------------------------------------
(* SpecTiles: read_native_tiles, one tile per step, and read_native_tile.  *)

\* The spec of a tiled part with 2 x 2 tiles whose channels, in canonical
\* order, have the given types (as query_channels fills it: channelformats
\* stays empty when all the channels have one type).
TileSpec(fmts) ==
    LET same == \A i \in 1..Len(fmts) : fmts[i] = fmts[1]
    IN  [ImageSpecDefault EXCEPT
            !.tile_width = 2, !.tile_height = 2,
            !.nchannels = Len(fmts),
            !.format = IF same THEN fmts[1] ELSE "FLOAT",
            !.channelformats = IF same THEN <<>> ELSE fmts]

\* The channel types of the parts of the file.
TileFormats == {<<"HALF">>, <<"HALF", "UINT">>, <<"FLOAT", "HALF">>}

\* Width and height of the level read (exr_get_level_sizes).
LevelSizes == {3, 4}

\* The levels read: those, and two levels narrower or lower than the
\* requests made with the part's top-level spec.
LevelPairs == (LevelSizes \X LevelSizes) \cup {<<2, 4>>, <<4, 2>>}

\* Tile-aligned request intervals [begin, end) of the callers, counted from
\* the data window's origin.
TileRanges == {<<0, 2>>, <<0, 4>>, <<2, 4>>}

\* spec.x and spec.y: the origin of the data window.
TileOrigins == {0, 2}

\* m_missingcolor as open captured it: none, a solid color, a striped one.
MissingColors == {<<>>, <<5>>, <<-5, 7>>}

\* The codec steps of a tile that can fail.
TileFailures == {"info", "pipeline", "choose", "run"}

\* The state of a call at its entry, after init_part returned the part's
\* spec. m_spec is the spec of the handle's seek position, which is the
\* requested part's or another part's.
TilesEntry(op, spec, m_spec, m_missingcolor, lev, xr, yr) ==
    LET chbegin == 0
        chend == clamp(spec.nchannels, chbegin + 1, spec.nchannels)
        pixelbytes == pixel_bytes(spec, chbegin, chend)
        xend == IF op = "tile" THEN xr[1] + spec.tile_width ELSE xr[2]
        yend == IF op = "tile" THEN yr[1] + spec.tile_height ELSE yr[2]
    IN  [off |-> FALSE, op |-> op, pc |-> "entry",
         spec |-> spec, m_spec |-> m_spec, m_missingcolor |-> m_missingcolor,
         levw |-> lev[1], levh |-> lev[2],
         xbegin |-> xr[1], xend |-> xend, ybegin |-> yr[1], yend |-> yend,
         req_xend |-> xend, req_yend |-> yend,
         chbegin |-> chbegin, chend |-> chend, pixelbytes |-> pixelbytes,
         firstxtile |-> (xr[1] - spec.x) \div spec.tile_width,
         firstytile |-> (yr[1] - spec.y) \div spec.tile_height,
         nxtiles |-> 0, nytiles |-> 0, scanlinebytes |-> 0,
         tx |-> 0, ty |-> 0, first |-> TRUE, retval |-> TRUE,
         decoder |-> DecoderZero,
         buf |-> Buffer((xend - xr[1]) * (yend - yr[1]) * pixelbytes),
         levels_ok |-> TRUE, log |-> <<>>, nfail |-> 0, ret |-> "none"]

InitTiles ==
    /\ \E op \in {"tiles", "tile"}, f, g \in TileFormats,
          mc \in MissingColors, lev \in LevelPairs,
          xr, yr \in TileRanges, o \in TileOrigins :
          tiles = TilesEntry(op, [TileSpec(f) EXCEPT !.x = o, !.y = o],
                             TileSpec(g), mc, lev,
                             <<xr[1] + o, xr[2] + o>>, <<yr[1] + o, yr[2] + o>>)
    /\ hnd = HandleOff /\ thr = HandleOff /\ lock = HandleOff
    /\ ghost = HandleOff
    /\ scan = ScanOff
    /\ chan = ChanOff
    /\ call = CallOff

\* read_native_tiles up to the loop, without the clamp of lines 1701-1702.
TilesLevelSizes_noclamp(s, ok) ==
    LET tilew == s.spec.tile_width
        tileh == s.spec.tile_height
        nxtiles == (s.xend - s.xbegin + tilew - 1) \div tilew
        nytiles == (s.yend - s.ybegin + tileh - 1) \div tileh
    IN  IF ~ok
        THEN [s EXCEPT !.pc = "done", !.levels_ok = FALSE,
                       !.ret = s.m_missingcolor # <<>>]
        ELSE [s EXCEPT !.pc = "tile",
                       !.nxtiles = nxtiles, !.nytiles = nytiles,
                       !.scanlinebytes = nxtiles * tilew * s.pixelbytes]

\* read_native_tiles up to the loop: the level sizes, and when the query
\* fails the fill of the whole request.
TilesLevelSizes(s, ok) ==
    LET tilew == s.spec.tile_width
        tileh == s.spec.tile_height
        fill == check_fill_missing(s.m_missingcolor, s.m_spec,
                    s.xbegin, s.xend, s.ybegin, s.yend, s.chbegin, s.chend,
                    s.buf, 0, s.pixelbytes,
                    tilew * s.pixelbytes
                        * ((s.xend - s.xbegin + tilew - 1) \div tilew))
        xend == Min(s.xend, s.spec.x + s.levw)
        yend == Min(s.yend, s.spec.y + s.levh)
        nxtiles == (xend - s.xbegin + tilew - 1) \div tilew
        nytiles == (yend - s.ybegin + tileh - 1) \div tileh
    IN  IF ~ok
        THEN [s EXCEPT !.pc = "done", !.levels_ok = FALSE,
                       !.ret = fill.ret, !.buf = fill.buf]
        ELSE [s EXCEPT !.pc = IF nytiles > 0 /\ nxtiles > 0
                              THEN "tile" ELSE "destroy",
                       !.xend = xend, !.yend = yend,
                       !.nxtiles = nxtiles, !.nytiles = nytiles,
                       !.scanlinebytes = nxtiles * tilew * s.pixelbytes]

\* One pass of the inner loop of read_native_tiles: the tile (tx, ty) of the
\* request, on which the codec step f fails ("none": no step fails).
TileVisit(s, f) ==
    LET tilew == s.spec.tile_width
        tileh == s.spec.tile_height
        curxtile == s.firstxtile + s.tx
        curytile == s.firstytile + s.ty
        curtilestart == s.ty * tileh * s.scanlinebytes
                           + s.tx * tilew * s.pixelbytes
        fill == check_fill_missing(s.m_missingcolor, s.m_spec,
                    s.xbegin + s.tx * tilew, s.xbegin + (s.tx + 1) * tilew,
                    s.ybegin + s.ty * tileh, s.ybegin + (s.ty + 1) * tileh,
                    s.chbegin, s.chend, s.buf, curtilestart,
                    s.pixelbytes, s.scanlinebytes)
        entry(filled) == [tx |-> s.tx, ty |-> s.ty, fail |-> f,
                          filled |-> filled]
        failed(dec) ==
            [s EXCEPT !.retval = @ /\ fill.ret, !.buf = fill.buf,
                      !.decoder = dec, !.nfail = @ + 1,
                      !.log = Append(@, entry(fill.ret))]
        piped == IF s.first
                 THEN exr_decoding_initialize(s.decoder, f # "pipeline")
                 ELSE exr_decoding_update(s.decoder, f # "pipeline")
        chosen == IF s.first
                  THEN exr_decoding_choose_default_routines(piped, f # "choose")
                  ELSE piped
        \* cinfo.width, cinfo.height: the tile's part of the level
        w == Min(tilew, s.levw - curxtile * tilew)
        h == Min(tileh, s.levh - curytile * tileh)
        visited ==
            CASE f = "info" -> failed(s.decoder)
              [] f = "pipeline" -> failed(piped)
              [] f = "choose" -> failed(chosen)
              [] f = "run" -> [failed(chosen) EXCEPT !.first = FALSE]
              [] OTHER ->
                   [s EXCEPT !.decoder = chosen, !.first = FALSE,
                             !.log = Append(@, entry(FALSE)),
                             !.buf = exr_decoding_run(s.buf, s.spec,
                                        s.chbegin, s.chend, curtilestart,
                                        s.pixelbytes, s.scanlinebytes,
                                        s.spec.x + curxtile * tilew,
                                        s.spec.y + curytile * tileh, w, h)]
        lastx == s.tx + 1 = s.nxtiles
        lasty == s.ty + 1 = s.nytiles
    IN  [visited EXCEPT !.tx = IF lastx THEN 0 ELSE s.tx + 1,
                        !.ty = IF lastx THEN s.ty + 1 ELSE s.ty,
                        !.pc = IF lastx /\ lasty THEN "destroy" ELSE "tile"]

\* A variant of the end of read_native_tiles that reports the last tile's
\* result, as read_native_scanlines reports its last chunk's.
TilesEnd_last_rv(s) ==
    [s EXCEPT !.decoder = exr_decoding_destroy(s.decoder),
              !.ret = (s.log = <<>> \/ s.log[Len(s.log)].fail = "none"),
              !.pc = "done"]

\* The end of read_native_tiles.
TilesEnd(s) ==
    [s EXCEPT !.decoder = exr_decoding_destroy(s.decoder),
              !.ret = s.retval, !.pc = "done"]

\* read_native_tile: the tile at (xbegin, ybegin), on which the step f
\* fails ("levels": the level-size query).
read_native_tile(s, f) ==
    LET tilew == s.spec.tile_width
        tileh == s.spec.tile_height
        x == s.xbegin
        y == s.ybegin
        scanlinebytes == tilew * s.pixelbytes
        tx == (x - s.spec.x) \div tilew
        ty == (y - s.spec.y) \div tileh
        fill(xend, yend) ==
            check_fill_missing(s.m_missingcolor, s.m_spec, x, xend, y, yend,
                               0, s.spec.nchannels, s.buf, 0, s.pixelbytes,
                               scanlinebytes)
        clamped == fill(Min(s.levw, x + tilew), Min(s.levh, y + tileh))
        failed(fl, dec) ==
            [s EXCEPT !.pc = "done", !.ret = fl.ret, !.buf = fl.buf,
                      !.decoder = dec, !.nfail = 1,
                      !.levels_ok = f # "levels",
                      !.log = <<[tx |-> 0, ty |-> 0, fail |-> f,
                                 filled |-> fl.ret]>>]
        inited == exr_decoding_initialize(s.decoder, f # "pipeline")
        chosen == exr_decoding_choose_default_routines(inited, f # "choose")
        w == Min(tilew, s.levw - tx * tilew)
        h == Min(tileh, s.levh - ty * tileh)
    IN  CASE f = "levels" -> failed(fill(x + tilew, y + tileh), s.decoder)
          [] f = "info" -> failed(clamped, s.decoder)
          [] f = "pipeline" -> failed(clamped, exr_decoding_destroy(inited))
          [] f = "choose" -> failed(clamped, exr_decoding_destroy(chosen))
          [] f = "run" -> failed(clamped, exr_decoding_destroy(chosen))
          [] OTHER ->
               [s EXCEPT !.pc = "done", !.ret = TRUE,
                         !.decoder = exr_decoding_destroy(chosen),
                         !.log = <<[tx |-> 0, ty |-> 0, fail |-> f,
                                    filled |-> FALSE]>>,
                         !.buf = exr_decoding_run(s.buf, s.spec, 0,
                                    s.spec.nchannels, 0, s.pixelbytes,
                                    scanlinebytes, s.spec.x + tx * tilew,
                                    s.spec.y + ty * tileh, w, h)]

LevelSizesStep ==
    /\ tiles.op = "tiles" /\ tiles.pc = "entry"
    /\ \E ok \in BOOLEAN : tiles' = TilesLevelSizes(tiles, ok)
    /\ UNCHANGED <<chan, hnd, thr, lock, ghost, scan, call>>

TileStep ==
    /\ tiles.op = "tiles" /\ tiles.pc = "tile"
    /\ \E f \in TileFailures \cup {"none"} :
          /\ f = "choose" => tiles.first
          /\ f # "none" => tiles.nfail < MaxFailures
          /\ tiles' = TileVisit(tiles, f)
    /\ UNCHANGED <<chan, hnd, thr, lock, ghost, scan, call>>

TilesReturn ==
    /\ tiles.op = "tiles" /\ tiles.pc = "destroy"
    /\ tiles' = TilesEnd(tiles)
    /\ UNCHANGED <<chan, hnd, thr, lock, ghost, scan, call>>

ReadNativeTile ==
    /\ tiles.op = "tile" /\ tiles.pc = "entry"
    /\ \E f \in TileFailures \cup {"none", "levels"} :
          tiles' = read_native_tile(tiles, f)
    /\ UNCHANGED <<chan, hnd, thr, lock, ghost, scan, call>>

NextTiles ==
    \/ LevelSizesStep
    \/ TileStep
    \/ TilesReturn
    \/ ReadNativeTile

SpecTiles == InitTiles /\ [][NextTiles]_vars

-----------------------------------------------------------------------------
(* Claims about the tile reads (SpecTiles).                                *)

\* The tiles of a request, clamped to the level, in row-major order.
RequestTiles(s) ==
    LET tilew == s.spec.tile_width
        tileh == s.spec.tile_height
        nx == (Min(s.req_xend, s.spec.x + s.levw) - s.xbegin + tilew - 1)
                 \div tilew
        ny == (Min(s.req_yend, s.spec.y + s.levh) - s.ybegin + tileh - 1)
                 \div tileh
    IN  [i \in 1..(nx * ny) |-> <<(i - 1) % nx, (i - 1) \div nx>>]

\* The tiles a call has visited so far, in order.
VisitedTiles(s) == [i \in 1..Len(s.log) |-> <<s.log[i].tx, s.log[i].ty>>]

\* A visited tile that was decoded, or failed and was filled.
TileGood(e) == e.fail = "none" \/ (e.fail \in TileFailures /\ e.filled)

\* What C4 says of a read_native_tiles call in state s.
TilesVisitAll(s) ==
    /\ SubSeq(RequestTiles(s), 1, Len(s.log)) = VisitedTiles(s)
    /\ s.pc = "done" =>
          /\ VisitedTiles(s) = RequestTiles(s)
          /\ s.ret = (\A i \in 1..Len(s.log) : TileGood(s.log[i]))
          /\ (s.m_missingcolor = <<>>
                 /\ \E i \in 1..Len(s.log) : s.log[i].fail # "none")
                => s.ret = FALSE

\* C4 as stated: read_native_tiles visits every tile of the request
\* whatever failed on earlier tiles, and returns true exactly when every
\* visited tile was decoded or was filled after its failure; without a
\* missing color one failing tile makes it return false.
C4_EveryTileVisited ==
    tiles.op = "tiles" => TilesVisitAll(tiles)

\* C4, amended: the above holds of the calls whose level-size query
\* succeeds; when that query fails no tile is visited and the call returns
\* what check_fill_missing returns for the whole request, true exactly when
\* a missing color is configured.
C4_EveryTileVisited_LevelsKnown ==
    tiles.op = "tiles" =>
        /\ tiles.levels_ok => TilesVisitAll(tiles)
        /\ ~tiles.levels_ok =>
              /\ tiles.pc = "done" /\ tiles.log = <<>>
              /\ tiles.ret = (tiles.m_missingcolor # <<>>)

\* A four-tile request, no missing color: the first tile failed, the three
\* others were visited and decoded, and the call returned false.
C4_Witness ==
    /\ tiles.op = "tiles" /\ tiles.pc = "done" /\ tiles.levels_ok
    /\ tiles.m_missingcolor = <<>>
    /\ Len(tiles.log) = 4
    /\ tiles.log[1].fail = "choose"
    /\ \A i \in 2..4 : tiles.log[i].fail = "none"
    /\ tiles.ret = FALSE

\* The bytes of the tile (tx, ty) of the request in the caller's buffer.
TileRegion(s, tx, ty) ==
    LET tilew == s.spec.tile_width
        tileh == s.spec.tile_height
        x1 == Min(s.xend, s.xbegin + (tx + 1) * tilew)
        y1 == Min(s.yend, s.ybegin + (ty + 1) * tileh)
    IN  {(y - s.ybegin) * s.scanlinebytes + (x - s.xbegin) * s.pixelbytes + k :
            x \in (s.xbegin + tx * tilew)..(x1 - 1),
            y \in (s.ybegin + ty * tileh)..(y1 - 1),
            k \in 0..(s.pixelbytes - 1)}

\* The call of state s run from the loop's start with a codec that succeeds.
RECURSIVE TilesRun(_)
TilesRun(s) == IF s.pc = "tile" THEN TilesRun(TileVisit(s, "none")) ELSE s

FailureFree(s) ==
    TilesRun([s EXCEPT !.pc = "tile", !.tx = 0, !.ty = 0, !.first = TRUE,
                       !.retval = TRUE, !.decoder = DecoderZero,
                       !.log = <<>>, !.nfail = 0,
                       !.buf = Buffer(Cardinality(DOMAIN s.buf.mem))]).buf

\* check_fill_missing's pattern for the tile (tx, ty) of the part read.
FillPattern(s, tx, ty) ==
    LET tilew == s.spec.tile_width
        tileh == s.spec.tile_height
    IN  check_fill_missing(s.m_missingcolor, s.spec,
            s.xbegin + tx * tilew, s.xbegin + (tx + 1) * tilew,
            s.ybegin + ty * tileh, s.ybegin + (ty + 1) * tileh,
            s.chbegin, s.chend, Buffer(Cardinality(DOMAIN s.buf.mem)),
            ty * tileh * s.scanlinebytes + tx * tilew * s.pixelbytes,
            s.pixelbytes, s.scanlinebytes).buf

\* The calls C5 is about: returned, a missing color, one tile failed.
OneTileFailed(s) ==
    /\ s.op = "tiles" /\ s.pc = "done" /\ s.levels_ok
    /\ s.m_missingcolor # <<>>
    /\ Cardinality({i \in 1..Len(s.log) : s.log[i].fail # "none"}) = 1

\* C5: with a missing color, when one tile of a read_native_tiles call fails
\* and the others decode, the call returns true, the failing tile's bytes
\* are check_fill_missing's pattern, every other tile's bytes are those of
\* a failure-free read, and nothing outside the buffer is written.
C5_TileIsolation ==
    OneTileFailed(tiles) =>
        LET bad == CHOOSE i \in 1..Len(tiles.log) : tiles.log[i].fail # "none"
            ref == FailureFree(tiles)
            pat == FillPattern(tiles, tiles.log[bad].tx, tiles.log[bad].ty)
        IN  /\ tiles.ret = TRUE
            /\ \A o \in TileRegion(tiles, tiles.log[bad].tx, tiles.log[bad].ty) :
                  tiles.buf.mem[o] = pat.mem[o]
            /\ \A i \in 1..Len(tiles.log) :
                  i # bad =>
                     \A o \in TileRegion(tiles, tiles.log[i].tx, tiles.log[i].ty) :
                        tiles.buf.mem[o] = ref.mem[o]
            /\ tiles.buf.over = {}

\* C8 (tile reads): no pipeline is initialized while one is live, and when
\* the call has returned every pipeline that was initialized has been
\* destroyed, once.
C8_PipelineReleased ==
    /\ tiles.decoder.reinits = 0
    /\ tiles.pc = "done" =>
          /\ tiles.decoder.state # "live"
          /\ tiles.decoder.destroys = tiles.decoder.inits

-----------------------------------------------------------------------------
(* SpecScan: read_native_scanlines, one chunk per step.                    *)

\* Height of the tallest image read.
MaxHeight == 16

\* spec.height of the scanline parts.
Heights == {MaxHeight - 2, MaxHeight}

\* exr_get_scanlines_per_chunk: one, a few, more than the image has.
ScanlinesPerChunk == {1, 4, 2 * MaxHeight}

\* spec.y: the first row of the data window.
Origins == {0, 1}

\* The spec of a scanline part: one pixel wide, one HALF channel.
ScanSpec(y0, height) ==
    [ImageSpecDefault EXCEPT !.y = y0, !.width = 1, !.height = height,
                             !.nchannels = 1, !.format = "HALF"]

\* The call at its entry, after init_part returned the part's spec.
ScanEntry(spec, m_missingcolor, spc, ybegin, yend) ==
    LET chbegin == 0
        chend == clamp(spec.nchannels, chbegin + 1, spec.nchannels)
        pixelbytes == pixel_bytes(spec, chbegin, chend)
        scanlinebytes == spec.width * pixelbytes
    IN  [off |-> FALSE, pc |-> "entry", spec |-> spec,
         m_missingcolor |-> m_missingcolor, chunkrows |-> spc,
         ybegin |-> ybegin, yend |-> yend,
         chbegin |-> chbegin, chend |-> chend,
         pixelbytes |-> pixelbytes, scanlinebytes |-> scanlinebytes,
         scansperchunk |-> 0, y |-> ybegin, nlines |-> 0, linedata |-> 0,
         first |-> TRUE, rv |-> "EXR_ERR_SUCCESS",
         decoder |-> DecoderZero,
         data |-> Buffer((yend - ybegin) * scanlinebytes),
         fullchunk |-> Buffer(0),
         log |-> <<>>, fills |-> 0, ret |-> "none"]

InitScan ==
    /\ \E y0 \in Origins, height \in Heights, spc \in ScanlinesPerChunk,
          mc \in {<<>>, <<5>>} :
          \E ybegin \in y0..(y0 + height - 1) :
             \E yend \in (ybegin + 1)..(y0 + height) :
                scan = ScanEntry(ScanSpec(y0, height), mc, spc, ybegin, yend)
    /\ hnd = HandleOff /\ thr = HandleOff /\ lock = HandleOff
    /\ ghost = HandleOff
    /\ tiles = TilesOff
    /\ chan = ChanOff
    /\ call = CallOff

\* read_native_scanlines up to its loop.
ScanBegin(s, ok) ==
    IF ~ok THEN [s EXCEPT !.pc = "done", !.rv = "EXR_ERR_FAILED", !.ret = FALSE]
    ELSE [s EXCEPT !.scansperchunk = s.chunkrows, !.nlines = s.chunkrows,
                   !.pc = IF s.ybegin < s.yend THEN "chunk" ELSE "destroy"]

\* The for statement's increment and test.
ScanAdvance(s) ==
    [s EXCEPT !.y = s.y + s.nlines,
              !.pc = IF s.y + s.nlines < s.yend THEN "chunk" ELSE "destroy"]

\* A variant of the failure of a chunk that does what the tile path does:
\* fill, and go on to the next chunk.
ChunkFailed_fill(s) ==
    ScanAdvance([s EXCEPT !.fills = @ + 1])

\* A chunk's codec step failed: break.
ChunkFailed(s) == [s EXCEPT !.pc = "destroy"]

\* memcpy(dst, src, n) from the scratch chunk to the caller's buffer
memcpy(buf, dst, from, src, n) ==
    Store(buf, {[key |-> 0, off |-> dst + k, bytes |-> <<from.mem[src + k]>>] :
                   k \in 0..(n - 1)})

\* std::vector::resize: the bytes kept, new ones value-initialized
resize(buf, n) ==
    [mem |-> [o \in 0..(n - 1) |->
                 IF o \in DOMAIN buf.mem THEN buf.mem[o] ELSE Untouched],
     over |-> buf.over]

\* One pass of the loop of read_native_scanlines, in which the codec step f
\* fails ("none": no step fails).
ScanChunk(s, f) ==
    LET spc == s.scansperchunk
        invalid == (s.y - s.spec.y) % spc
        unaligned == invalid # 0
        beyond == /\ ~unaligned
                  /\ (s.y + spc) > s.yend
                  /\ (s.y + spc) < (s.spec.y + s.spec.height)
        scratch == unaligned \/ beyond
        fullchunk == IF scratch THEN resize(s.fullchunk, s.scanlinebytes * spc)
                     ELSE s.fullchunk
        nlines == IF unaligned THEN spc - invalid
                  ELSE IF beyond THEN s.yend - s.y
                  ELSE spc
        y == IF unaligned THEN s.y - invalid ELSE s.y
        \* cinfo.height: the rows the chunk at y holds
        h == Min(spc, s.spec.y + s.spec.height - y)
        piped == IF s.first
                 THEN exr_decoding_initialize(s.decoder, f # "pipeline")
                 ELSE exr_decoding_update(s.decoder, f # "pipeline")
        chosen == IF s.first
                  THEN exr_decoding_choose_default_routines(piped, f # "choose")
                  ELSE piped
        begun(dec) ==
            [s EXCEPT !.y = y, !.nlines = nlines, !.fullchunk = fullchunk,
                      !.decoder = dec,
                      !.rv = IF f = "none" THEN "EXR_ERR_SUCCESS"
                             ELSE "EXR_ERR_FAILED",
                      !.log = Append(@, [y |-> y, fail |-> f,
                                         scratch |-> scratch])]
        decoded == exr_decoding_run(IF scratch THEN fullchunk ELSE s.data,
                       s.spec, s.chbegin, s.chend,
                       IF scratch THEN 0 ELSE s.linedata,
                       s.pixelbytes, s.scanlinebytes, s.spec.x, y,
                       s.spec.width, h)
        ycopy == y + invalid
        ncopy == Min(nlines, s.yend - ycopy)
        run == IF scratch
               THEN [begun(chosen) EXCEPT
                        !.fullchunk = decoded,
                        !.y = ycopy, !.nlines = ncopy,
                        !.data = memcpy(s.data, s.linedata, decoded,
                                        invalid * s.scanlinebytes,
                                        ncopy * s.scanlinebytes),
                        !.first = FALSE,
                        !.linedata = s.linedata + s.scanlinebytes * ncopy]
               ELSE [begun(chosen) EXCEPT
                        !.data = decoded,
                        !.first = FALSE,
                        !.linedata = s.linedata + s.scanlinebytes * nlines]
    IN  CASE f = "info" -> ChunkFailed(begun(s.decoder))
          [] f = "pipeline" -> ChunkFailed(begun(piped))
          [] f = "choose" -> ChunkFailed(begun(chosen))
          [] f = "run" -> ChunkFailed(begun(chosen))
          [] OTHER -> ScanAdvance(run)

\* The end of read_native_scanlines.
ScanEnd(s) ==
    [s EXCEPT !.decoder = exr_decoding_destroy(s.decoder),
              !.ret = (s.rv = "EXR_ERR_SUCCESS"), !.pc = "done"]

ScanBeginStep ==
    /\ scan.pc = "entry"
    /\ \E ok \in BOOLEAN : scan' = ScanBegin(scan, ok)
    /\ UNCHANGED <<chan, hnd, thr, lock, ghost, tiles, call>>

ScanChunkStep ==
    /\ scan.pc = "chunk"
    /\ \E f \in TileFailures \cup {"none"} :
          /\ f = "choose" => scan.first
          /\ scan' = ScanChunk(scan, f)
    /\ UNCHANGED <<chan, hnd, thr, lock, ghost, tiles, call>>

ScanReturn ==
    /\ scan.pc = "destroy"
    /\ scan' = ScanEnd(scan)
    /\ UNCHANGED <<chan, hnd, thr, lock, ghost, tiles, call>>

NextScan ==
    \/ ScanBeginStep
    \/ ScanChunkStep
    \/ ScanReturn

SpecScan == InitScan /\ [][NextScan]_vars

-----------------------------------------------------------------------------
(* Claims about the scanline reads (SpecScan).                             *)

\* The call of state s run from its loop's start with a codec that succeeds.
RECURSIVE ScanRun(_)
ScanRun(s) == IF s.pc = "chunk" THEN ScanRun(ScanChunk(s, "none")) ELSE s

\* The smallest chunk-aligned range that holds [ybegin, yend), cut at the
\* image's last row.
AlignedRange(s) ==
    LET spc == s.chunkrows
        ya == s.ybegin - ((s.ybegin - s.spec.y) % spc)
        yb == ya + ((s.yend - ya + spc - 1) \div spc) * spc
    IN  <<ya, Min(yb, s.spec.y + s.spec.height)>>

\* The buffer a read of the aligned range fills.
AlignedRead(s) ==
    LET r == AlignedRange(s)
    IN  ScanRun(ScanBegin(ScanEntry(s.spec, s.m_missingcolor, s.chunkrows,
                                    r[1], r[2]), TRUE)).data

\* C6: with a codec that succeeds, read_native_scanlines leaves in the
\* caller's buffer the rows ybegin..yend-1 of a read of the smallest
\* chunk-aligned range around [ybegin, yend), in order, and writes no other
\* row.
C6_UnalignedEquivalence ==
    (scan.pc = "done" /\ scan.ret = TRUE) =>
        LET ref == AlignedRead(scan)
            skip == (scan.ybegin - AlignedRange(scan)[1]) * scan.scanlinebytes
        IN  /\ ref.over = {}
            /\ \A o \in DOMAIN scan.data.mem :
                  scan.data.mem[o] = ref.mem[skip + o]
            /\ scan.data.over = {}

-----------------------------------------------------------------------------
(* SpecMip: the level geometry of a parsed part.                           *)

\* Largest miplevel asked of a part.
MaxLevel == 7

\* exr_get_tile_levels (line 767), as the file format counts the levels of
\* an extent: one more than the halvings that bring it to 1.
RECURSIVE exr_tile_levels(_, _)
exr_tile_levels(w, roundingmode) ==
    IF w <= 1 THEN 1
    ELSE 1 + exr_tile_levels(IF roundingmode = "EXR_TILE_ROUND_DOWN"
                             THEN w \div 2 ELSE (w + 1) \div 2,
                             roundingmode)

\* Extents of the data windows drawn, and their origins.
MipSizes == {1, 3, 4, 100}
MipOrigins == {0, 2}

\* The display windows drawn for a data window dw: the data window itself
\* and one that differs from it in origin, width and height.
MipDisplays(dw) ==
    {dw, Box(dw.minx - 1, dw.miny - 2, dw.maxx + 1, dw.maxy + 3)}

MipStorage ==
    { <<"EXR_STORAGE_SCANLINE", "EXR_TILE_ONE_LEVEL">>,
      <<"EXR_STORAGE_TILED", "EXR_TILE_ONE_LEVEL">>,
      <<"EXR_STORAGE_TILED", "EXR_TILE_MIPMAP_LEVELS">>,
      <<"EXR_STORAGE_TILED", "EXR_TILE_RIPMAP_LEVELS">> }

\* A one-channel header of the given geometry; the level counts are those
\* of the file format for the data window.
MipHeader(dw, disp, sl, roundingmode, envmap) ==
    LET w == dw.maxx - dw.minx + 1
        h == dw.maxy - dw.miny + 1
        one == sl[2] = "EXR_TILE_ONE_LEVEL"
        rip == sl[2] = "EXR_TILE_RIPMAP_LEVELS"
        lx == IF one THEN 1
              ELSE exr_tile_levels(IF rip THEN w ELSE Max(w, h), roundingmode)
        ly == IF one THEN 1
              ELSE exr_tile_levels(IF rip THEN h ELSE Max(w, h), roundingmode)
    IN  [Header("none", sl[1], sl[2], 1,
                << Chan(<<89>>, "EXR_PIXEL_HALF", 1, 1) >>)
         EXCEPT !.dataWindow = dw, !.displayWindow = disp,
                !.roundingmode = roundingmode,
                !.levelsx = lx, !.levelsy = ly,
                !.envmap = envmap]

\* The state after parse_header of a drawn header: the part, and the seek
\* position of a handle that has not sought yet.
InitMip ==
    /\ \E w \in MipSizes, h \in MipSizes, o \in MipOrigins, sl \in MipStorage,
          rm \in {"EXR_TILE_ROUND_DOWN", "EXR_TILE_ROUND_UP"},
          env \in {"none", "latlong", "cube"} :
          LET dw == Box(o, 2 * o, o + w - 1, 2 * o + h - 1)
          IN  \E disp \in MipDisplays(dw) :
              \E r \in ParseHeaderRest(ParseHeaderReset(PartInfoDefault),
                                       MipHeader(dw, disp, sl, rm, env)) :
                 call = [pc |-> "parsed",
                         hdr |-> MipHeader(dw, disp, sl, rm, env), part |-> r.part,
                         op |-> "none", miplevel |-> 0, ret |-> NoRet,
                         m_subimage |-> 0 - 1, m_miplevel |-> 0 - 1,
                         m_spec |-> ImageSpecDefault]
    /\ chan = ChanOff
    /\ hnd = HandleOff /\ thr = HandleOff /\ lock = HandleOff
    /\ ghost = HandleOff
    /\ scan = ScanOff
    /\ tiles = TilesOff

\* seek_subimage(0, miplevel), lines 1304-1320, on the parsed part.
MipSeek(miplevel) ==
    /\ call.pc = "parsed"
    /\ LET h == [m_parts |-> <<call.part>>, m_subimage |-> call.m_subimage,
                 m_miplevel |-> call.m_miplevel, m_spec |-> call.m_spec]
           r == SeekPosition(h, 0, miplevel)
       IN  call' = [call EXCEPT !.pc = "done", !.op = "seek_subimage",
                                !.miplevel = miplevel,
                                !.ret = BoolRet(r.ok),
                                !.m_subimage = r.h.m_subimage,
                                !.m_miplevel = r.h.m_miplevel,
                                !.m_spec = r.h.m_spec]
    /\ UNCHANGED <<chan, hnd, thr, lock, ghost, scan, tiles>>

\* spec(0, miplevel), lines 1341-1345, on the parsed part.
MipSpec(miplevel) ==
    /\ call.pc = "parsed"
    /\ call' = [call EXCEPT
                  !.pc = "done", !.op = "spec", !.miplevel = miplevel,
                  !.ret = IF miplevel < 0 \/ miplevel >= call.part.nmiplevels
                          THEN InvalidRet
                          ELSE SpecRet(compute_mipres(call.part, miplevel,
                                                      call.part.spec))]
    /\ UNCHANGED <<chan, hnd, thr, lock, ghost, scan, tiles>>

\* part.compute_mipres(miplevel, spec) on a copy of the part's spec, for a
\* level that need not be one of the part's.
MipCompute(miplevel) ==
    /\ call.pc = "parsed"
    /\ miplevel >= 0
    /\ call' = [call EXCEPT
                  !.pc = "done", !.op = "compute_mipres",
                  !.miplevel = miplevel,
                  !.ret = SpecRet(compute_mipres(call.part, miplevel,
                                                 call.part.spec))]
    /\ UNCHANGED <<chan, hnd, thr, lock, ghost, scan, tiles>>

NextMip ==
    \/ \E m \in (0 - 1)..MaxLevel : MipSeek(m)
    \/ \E m \in (0 - 1)..MaxLevel : MipSpec(m)
    \/ \E m \in 0..MaxLevel : MipCompute(m)

SpecMip == InitMip /\ [][NextMip]_vars

\* The spec a finished call of SpecMip produced: the seek position's spec
\* after seek_subimage, the returned spec otherwise.
MipResult ==
    IF call.op = "seek_subimage" THEN call.m_spec ELSE call.ret.spec

\* The call returned a spec for a level of the part.
MipValid ==
    /\ call.pc = "done"
    /\ call.ret.ok
    /\ call.op \in {"seek_subimage", "spec"}

-----------------------------------------------------------------------------
(* Claims about the level geometry (SpecMip).                              *)

\* The halving step of the claim, applied m times.
RECURSIVE HalveTimes(_, _, _)
HalveTimes(w, m, up) ==
    IF m = 0 THEN w
    ELSE LET prev == HalveTimes(w, m - 1, up)
             half == IF up THEN (prev + 1) \div 2 ELSE prev \div 2
         IN  IF half < 1 THEN 1 ELSE half

\* C13: in mipmap mode compute_mipres for level m yields the width and the
\* height obtained by applying m times, to the top width and to the top
\* height independently, the step w -> max(1, floor(w/2)) (rounding down)
\* or w -> max(1, ceil(w/2)) (rounding up); 100x100 down gives 50x50, 25x25
\* and 1x1 at levels 1, 2, 7 and 3x3 up gives 2x2 and 1x1 at levels 1, 2;
\* one-level mode leaves the top dimensions unchanged.
C13_MipArithmetic ==
    (call.pc = "done" /\ call.op = "compute_mipres") =>
        LET part == call.part
            sp == call.ret.spec
            m == call.miplevel
            up == part.roundingmode = "EXR_TILE_ROUND_UP"
            is(tw, th, rm, lev) ==
                /\ part.topwidth = tw /\ part.topheight = th
                /\ part.roundingmode = rm /\ m = lev
        IN  /\ part.levelmode = "EXR_TILE_MIPMAP_LEVELS" =>
                /\ sp.width = HalveTimes(part.topwidth, m, up)
                /\ sp.height = HalveTimes(part.topheight, m, up)
                /\ is(100, 100, "EXR_TILE_ROUND_DOWN", 1) =>
                      sp.width = 50 /\ sp.height = 50
                /\ is(100, 100, "EXR_TILE_ROUND_DOWN", 2) =>
                      sp.width = 25 /\ sp.height = 25
                /\ is(100, 100, "EXR_TILE_ROUND_DOWN", 7) =>
                      sp.width = 1 /\ sp.height = 1
                /\ is(3, 3, "EXR_TILE_ROUND_UP", 1) =>
                      sp.width = 2 /\ sp.height = 2
                /\ is(3, 3, "EXR_TILE_ROUND_UP", 2) =>
                      sp.width = 1 /\ sp.height = 1
            /\ part.levelmode = "EXR_TILE_ONE_LEVEL" =>
                /\ sp.width = part.topwidth
                /\ sp.height = part.topheight

\* compute_mipres has run for level 7 of a 100x3 mipmap rounding down: the
\* width and the height were halved independently, both down to the clamp.
C13_Witness ==
    /\ call.pc = "done" /\ call.op = "compute_mipres"
    /\ call.part.levelmode = "EXR_TILE_MIPMAP_LEVELS"
    /\ call.part.roundingmode = "EXR_TILE_ROUND_DOWN"
    /\ call.part.topwidth = 100 /\ call.part.topheight = 3
    /\ call.miplevel = 7
    /\ call.ret.spec.width = 1 /\ call.ret.spec.height = 1

\* C14: for a part that is not a cubeface map and has mip levels, at every
\* valid miplevel the spec produced by seek_subimage and by spec has the top
\* data window's origin as (x, y); its full rectangle is the file's display
\* window at miplevel 0 and the level's own data rectangle (the origin and
\* the computed width and height) at a miplevel above 0.
C14_LevelWindows ==
    (MipValid /\ ~call.part.cubeface
              /\ call.part.levelmode # "EXR_TILE_ONE_LEVEL") =>
        LET sp == MipResult
            dw == call.hdr.dataWindow
            disp == call.hdr.displayWindow
            up == call.part.roundingmode = "EXR_TILE_ROUND_UP"
        IN  /\ sp.x = dw.minx /\ sp.y = dw.miny
            /\ call.part.levelmode = "EXR_TILE_MIPMAP_LEVELS" =>
                  /\ sp.width = HalveTimes(dw.maxx - dw.minx + 1,
                                           call.miplevel, up)
                  /\ sp.height = HalveTimes(dw.maxy - dw.miny + 1,
                                            call.miplevel, up)
            /\ call.miplevel = 0 =>
                  /\ sp.full_x = disp.minx /\ sp.full_y = disp.miny
                  /\ sp.full_width = disp.maxx - disp.minx + 1
                  /\ sp.full_height = disp.maxy - disp.miny + 1
            /\ call.miplevel > 0 =>
                  /\ sp.full_x = sp.x /\ sp.full_y = sp.y
                  /\ sp.full_width = sp.width
                  /\ sp.full_height = sp.height

\* seek_subimage has positioned the handle on level 2 of a 100x4 mipmap
\* whose display window differs from its data window: the full rectangle is
\* the level's 25x1 data rectangle at the top origin (2, 4).
C14_Witness ==
    /\ MipValid /\ call.op = "seek_subimage"
    /\ ~call.part.cubeface
    /\ call.part.levelmode = "EXR_TILE_MIPMAP_LEVELS"
    /\ call.part.roundingmode = "EXR_TILE_ROUND_DOWN"
    /\ call.hdr.dataWindow = Box(2, 4, 101, 7)
    /\ call.hdr.displayWindow # call.hdr.dataWindow
    /\ call.miplevel = 2
    /\ call.m_spec.full_x = 2 /\ call.m_spec.full_y = 4
    /\ call.m_spec.full_width = 25 /\ call.m_spec.full_height = 1

\* C15: for every part flagged as a cubeface environment map, in every
\* level mode and at every valid miplevel, the spec produced by
\* seek_subimage and by spec has full_width and full_height both equal to
\* the level's width, whatever the display window.
C15_CubefaceSquare ==
    (MipValid /\ call.part.cubeface) =>
        /\ MipResult.full_width = MipResult.width
        /\ MipResult.full_height = MipResult.width

\* The same for the parts that have mip levels, where compute_mipres runs
\* to its end.
C15_CubefaceSquare_Levels ==
    (MipValid /\ call.part.cubeface
              /\ call.part.levelmode # "EXR_TILE_ONE_LEVEL") =>
        /\ MipResult.full_width = MipResult.width
        /\ MipResult.full_height = MipResult.width

\* spec(0, 0) has returned for a one-level cubeface part of 4x100 pixels
\* whose display window is its data window: full_height is 100.
C15_FailingInput ==
    /\ MipValid /\ call.op = "spec"
    /\ call.part.cubeface
    /\ call.part.levelmode = "EXR_TILE_ONE_LEVEL"
    /\ call.hdr.displayWindow = call.hdr.dataWindow
    /\ call.part.topwidth = 4 /\ call.part.topheight = 100
    /\ call.miplevel = 0
    /\ call.ret.spec.width = 4
    /\ call.ret.spec.full_width = 4 /\ call.ret.spec.full_height = 100

-----------------------------------------------------------------------------
(* SpecFill: the missing color, from open to check_fill_missing.           *)

\* Largest extent, in pixels, of a region given to check_fill_missing.
MaxRegion == 2

\* Strutil::extract_from_list_string<float>(list): the list is split at
\* each ',' and every piece is converted to a number (an optional '-' and
\* decimal digits here); the empty list has no piece.
RECURSIVE SplitAt(_, _)
SplitAt(s, sep) ==
    IF \A i \in 1..Len(s) : s[i] # sep THEN <<s>>
    ELSE LET k == CHOOSE i \in 1..Len(s) :
                     s[i] = sep /\ \A j \in 1..(i - 1) : s[j] # sep
         IN  <<SubSeq(s, 1, k - 1)>> \o SplitAt(SubSeq(s, k + 1, Len(s)), sep)

RECURSIVE Digits(_)
Digits(s) ==
    IF s = <<>> THEN 0
    ELSE 10 * Digits(SubSeq(s, 1, Len(s) - 1)) + (s[Len(s)] - 48)

from_string(s) ==
    IF s # <<>> /\ s[1] = 45 THEN 0 - Digits(Tail(s)) ELSE Digits(s)

extract_from_list_string(list) ==
    IF list = <<>> THEN <<>>
    ELSE LET pieces == SplitAt(list, 44)
         IN  [i \in 1..Len(pieces) |-> from_string(pieces[i])]

\* The configuration given to open: no "oiio:missingcolor", a string list,
\* or a numeric array.
NoMissingColor == [form |-> "none", str |-> <<>>, vals |-> <<>>]
StringColor(str) == [form |-> "string", str |-> str, vals |-> <<>>]
ArrayColor(vals) == [form |-> "array", str |-> <<>>, vals |-> vals]

\* "5", "-5,5,5" and "3,-4,2" as strings; <<5>> and <<-5, 5, 5>> as arrays.
Configs ==
    { NoMissingColor,
      StringColor(<<53>>),
      StringColor(<<45, 53, 44, 53, 44, 53>>),
      StringColor(<<51, 44, 45, 52, 44, 50>>),
      ArrayColor(<<5>>),
      ArrayColor(<<-5, 5, 5>>) }

\* OIIO::get_string_attribute("missingcolor"): unset, or "7".
GlobalDefaults == {<<>>, <<55>>}

\* The values a configuration supplies.
Supplied(config) ==
    IF config.form = "string" THEN extract_from_list_string(config.str)
    ELSE config.vals

\* open, lines 619-637: the outcomes [abort, m_missingcolor].  The
\* numeric-array branch stores through operator[] into a vector whose size
\* clear() left at 0: the behaviour is undefined when n > 0.  The stores
\* land in the capacity reserve(n) obtained and the size stays 0, or a
\* library built with bounds assertions ends the process.
capture_missingcolor(m_missingcolor, config, global) ==
    LET is(mc) == [abort |-> FALSE, m_missingcolor |-> mc]
    IN  IF config.form = "string"
        THEN {is(extract_from_list_string(config.str))}
        ELSE IF config.form = "array"
        THEN IF Len(config.vals) = 0 THEN {is(<<>>)}
             ELSE {is(<<>>), [abort |-> TRUE, m_missingcolor |-> <<>>]}
        ELSE IF Len(global) # 0 THEN {is(extract_from_list_string(global))}
        ELSE {is(m_missingcolor)}

\* The channel types of the part that is read.
FillFormats ==
    { <<"FLOAT", "FLOAT", "FLOAT">>, <<"HALF", "FLOAT", "HALF">>,
      <<"FLOAT", "UINT", "HALF">> }

FillSpecOf(fmts) ==
    [ImageSpecDefault EXCEPT !.nchannels = Len(fmts), !.format = "FLOAT",
                             !.channelformats = fmts]

\* The handle after init() (line 457), before open.
InitFill ==
    /\ \E config \in Configs, global \in GlobalDefaults, fmts \in FillFormats :
          call = [pc |-> "closed", config |-> config, global |-> global,
                  m_missingcolor |-> <<>>, m_spec |-> FillSpecOf(fmts),
                  xbegin |-> 0, xend |-> 0, ybegin |-> 0, yend |-> 0,
                  chbegin |-> 0, chend |-> 0,
                  buf |-> Buffer(0), ret |-> FALSE]
    /\ chan = ChanOff
    /\ hnd = HandleOff /\ thr = HandleOff /\ lock = HandleOff
    /\ ghost = HandleOff
    /\ scan = ScanOff
    /\ tiles = TilesOff

\* open, lines 619-637.
FillOpen ==
    /\ call.pc = "closed"
    /\ \E r \in capture_missingcolor(call.m_missingcolor, call.config,
                                     call.global) :
          call' = IF r.abort THEN [call EXCEPT !.pc = "aborted"]
                  ELSE [call EXCEPT !.pc = "open",
                                    !.m_missingcolor = r.m_missingcolor]
    /\ UNCHANGED <<chan, hnd, thr, lock, ghost, scan, tiles>>

\* check_fill_missing on a region of the open file, data being a buffer of
\* exactly the region with contiguous strides.
FillCheck(xbegin, ybegin, w, h, chbegin, chend) ==
    /\ call.pc = "open"
    /\ LET xstride == pixel_bytes(call.m_spec, chbegin, chend)
           ystride == w * xstride
           r == check_fill_missing(call.m_missingcolor, call.m_spec,
                                   xbegin, xbegin + w, ybegin, ybegin + h,
                                   chbegin, chend, Buffer(h * ystride), 0,
                                   xstride, ystride)
       IN  call' = [call EXCEPT
                      !.pc = "filled",
                      !.xbegin = xbegin, !.xend = xbegin + w,
                      !.ybegin = ybegin, !.yend = ybegin + h,
                      !.chbegin = chbegin, !.chend = chend,
                      !.buf = r.buf, !.ret = r.ret]
    /\ UNCHANGED <<chan, hnd, thr, lock, ghost, scan, tiles>>

\* close, lines 1373-1379: init() clears the missing color.
FillClose ==
    /\ call.pc \in {"open", "filled"}
    /\ call' = [call EXCEPT !.pc = "end", !.m_missingcolor = <<>>]
    /\ UNCHANGED <<chan, hnd, thr, lock, ghost, scan, tiles>>

NextFill ==
    \/ FillOpen
    \/ \E xbegin \in {0, 3, 9}, ybegin \in {0, 1, 3},
          w \in 1..MaxRegion, h \in 1..MaxRegion,
          chbegin \in 0..1, chend \in 2..3 :
          FillCheck(xbegin, ybegin, w, h, chbegin, chend)
    \/ FillClose

SpecFill == InitFill /\ [][NextFill]_vars

-----------------------------------------------------------------------------
(* Claims about the missing color (SpecFill).                              *)

\* The bytes of channel ch of pixel (x, y) in the buffer of a finished
\* check_fill_missing call.
FilledBytes(x, y, ch) ==
    LET xstride == pixel_bytes(call.m_spec, call.chbegin, call.chend)
        off == (y - call.ybegin) * (call.xend - call.xbegin) * xstride
               + (x - call.xbegin) * xstride
               + pixel_bytes(call.m_spec, call.chbegin, ch)
    IN  [b \in 1..TypeSize(channelformat(call.m_spec, ch)) |->
            call.buf.mem[off + b - 1]]

\* Channel ch of pixel (x, y) holds the value v in the channel's type.
Holds(x, y, ch, v) ==
    LET t == channelformat(call.m_spec, ch)
    IN  FilledBytes(x, y, ch) = [b \in 1..TypeSize(t) |-> FillByte(v, t, b)]

\* The value configured for channel ch: its component of the missing color,
\* the last component for the channels past the end of the color.
Configured(ch) ==
    LET mc == call.m_missingcolor
    IN  IF ch < Len(mc) THEN mc[ch + 1] ELSE mc[Len(mc)]

\* (x - y) & 8 is nonzero: bit 3 of the two's complement difference.
StripeBit(x, y) == ((x - y) \div 8) % 2 = 1

\* A check_fill_missing call has finished with a missing color whose first
\* component is negative.
StripeFilled ==
    /\ call.pc = "filled"
    /\ call.m_missingcolor # <<>>
    /\ call.m_missingcolor[1] < 0

FilledPixels ==
    (call.xbegin..(call.xend - 1)) \X (call.ybegin..(call.yend - 1))

FloatChannels ==
    {ch \in call.chbegin..(call.chend - 1) :
        channelformat(call.m_spec, ch) \in {"FLOAT", "HALF"}}

\* C16: when the missing color has a negative first component,
\* check_fill_missing writes for every pixel (x, y) of the region: channel 0
\* = 0 if (x - y) & 8 is nonzero and the magnitude of the first component
\* otherwise, and every other channel = its configured value whatever the
\* position.
C16_StripeChannel0 ==
    StripeFilled =>
        \A p \in FilledPixels : \A ch \in FloatChannels :
            Holds(p[1], p[2], ch,
                  IF ch = 0
                  THEN IF StripeBit(p[1], p[2]) THEN 0
                       ELSE 0 - call.m_missingcolor[1]
                  ELSE Configured(ch))

\* C16, as the code has it: for every pixel (x, y) of the region, every
\* float or half channel = 0 if (x - y) & 8 is nonzero; otherwise channel 0
\* = the magnitude of the first component and every other channel = its
\* configured value.  Channels of another type are not written, and the
\* call returns true.
C16_StripeAllChannels ==
    StripeFilled =>
        /\ call.ret = TRUE
        /\ \A p \in FilledPixels : \A ch \in call.chbegin..(call.chend - 1) :
              IF ch \in FloatChannels
              THEN Holds(p[1], p[2], ch,
                         IF StripeBit(p[1], p[2]) THEN 0
                         ELSE IF ch = 0 THEN 0 - call.m_missingcolor[1]
                         ELSE Configured(ch))
              ELSE \A b \in DOMAIN FilledBytes(p[1], p[2], ch) :
                      FilledBytes(p[1], p[2], ch)[b] = Untouched

\* The color [-5, 5, 5] was applied to the pixels (9, 1) and (9, 2) of a
\* part with three float channels: at (9, 1), where (9 - 1) & 8 = 8, the
\* channels 0, 1, 2 hold 0; at (9, 2), where (9 - 2) & 8 = 0, they hold 5.
C16_Witness ==
    /\ StripeFilled
    /\ call.m_missingcolor = <<-5, 5, 5>>
    /\ call.m_spec.channelformats = <<"FLOAT", "FLOAT", "FLOAT">>
    /\ call.xbegin = 9 /\ call.xend = 10 /\ call.ybegin = 1 /\ call.yend = 3
    /\ call.chbegin = 0 /\ call.chend = 3
    /\ \A ch \in 0..2 : Holds(9, 1, ch, 0) /\ Holds(9, 2, ch, 5)

\* C17: after a successful open whose configuration supplies
\* "oiio:missingcolor" with n values, as a string list or as a numeric
\* array, the handle's missing color is that sequence of n values until
\* close, and check_fill_missing then applies a fill and returns true; it
\* returns false only when neither the caller nor the process-wide default
\* configured a missing color.
C17_MissingColorCaptured ==
    /\ (call.pc \in {"open", "filled"}
           /\ call.config.form # "none" /\ Supplied(call.config) # <<>>) =>
          call.m_missingcolor = Supplied(call.config)
    /\ call.pc = "filled" =>
          /\ (call.config.form # "none" /\ Supplied(call.config) # <<>>) =>
                call.ret = TRUE
          /\ call.ret = FALSE =>
                call.config.form = "none" /\ call.global = <<>>

\* The same for the configurations that are not numeric arrays.
C17_MissingColorCaptured_String ==
    (call.config.form # "array") =>
        /\ call.pc \in {"open", "filled"} =>
              /\ call.config.form = "string" =>
                    call.m_missingcolor = Supplied(call.config)
              /\ (call.config.form = "none" /\ call.global # <<>>) =>
                    call.m_missingcolor = extract_from_list_string(call.global)
        /\ call.pc = "filled" =>
              /\ call.ret = (call.m_missingcolor # <<>>)
              /\ call.ret = FALSE =>
                    call.config.form = "none" /\ call.global = <<>>

\* open was given the numeric array [-5, 5, 5] and returned; the handle's
\* missing color is empty and check_fill_missing returned false, the buffer
\* untouched.
C17_FailingInput ==
    /\ call.pc = "filled"
    /\ call.config = ArrayColor(<<-5, 5, 5>>)
    /\ call.m_missingcolor = <<>>
    /\ call.ret = FALSE
    /\ \A o \in DOMAIN call.buf.mem : call.buf.mem[o] = Untouched

-----------------------------------------------------------------------------
(* SpecReopen: one caller, the handle opened again after close.            *)

\* The files opened on the handle, one after the other.
MaxOpens == 2

ReopenFiles == {f \in Files : f.name \in {"two_parts", "one_part", "subsampled"}}

\* read_native_deep_scanlines reporting success.
read_native_deep_scanlines_ok(h, deepdata) ==
    [ret |-> TRUE, error |-> "", h |-> h, deepdata |-> deepdata]

\* OpenEXRInput::read_native_deep_scanlines and read_native_deep_tiles on
\* the handle h, whatever their other arguments: the value returned, the
\* error recorded, the handle and the caller's DeepData afterwards.
read_native_deep_scanlines(h, deepdata) ==
    [ret |-> FALSE, error |-> "Not yet implemented: TODO", h |-> h,
     deepdata |-> deepdata]

read_native_deep_tiles(h, deepdata) ==
    [ret |-> FALSE, error |-> "Not yet implemented: TODO", h |-> h,
     deepdata |-> deepdata]

\* No deep read under way; the caller's DeepData as the caller left it.
DeepIdle(deepdata) ==
    [op |-> "none", subimage |-> 0, miplevel |-> 0, ret |-> TRUE,
     error |-> "", deepdata |-> deepdata]

\* The state after construction, as in SpecPart.
InitReopen ==
    /\ hnd = [m_exr_context |-> "null", file |-> "none", m_nsubimages |-> 0,
              m_parts |-> <<>>, m_subimage |-> 0, m_miplevel |-> 0,
              m_spec |-> ImageSpecDefault]
    /\ thr = [t \in Callers |-> IdleCall]
    /\ lock = LockFree
    /\ ghost = [parsed |-> <<>>, begun |-> <<>>, failed |-> <<>>,
                opens |-> 0, sessions |-> MaxOpens]
    /\ chan = ChanOff
    /\ scan = ScanOff
    /\ tiles = TilesOff
    /\ \E deepdata \in {"clear", "samples"} : call = DeepIdle(deepdata)

\* A deep read called on the handle in its present state, by a caller that
\* has no other call under way.
DeepScanlines(subimage, miplevel) ==
    /\ call.op = "none"
    /\ LET r == read_native_deep_scanlines(hnd, call.deepdata)
       IN  /\ hnd' = r.h
           /\ call' = [op |-> "read_native_deep_scanlines",
                       subimage |-> subimage, miplevel |-> miplevel,
                       ret |-> r.ret, error |-> r.error,
                       deepdata |-> r.deepdata]
    /\ UNCHANGED <<thr, lock, ghost, chan, scan, tiles>>

DeepTiles(subimage, miplevel) ==
    /\ call.op = "none"
    /\ LET r == read_native_deep_tiles(hnd, call.deepdata)
       IN  /\ hnd' = r.h
           /\ call' = [op |-> "read_native_deep_tiles",
                       subimage |-> subimage, miplevel |-> miplevel,
                       ret |-> r.ret, error |-> r.error,
                       deepdata |-> r.deepdata]
    /\ UNCHANGED <<thr, lock, ghost, chan, scan, tiles>>

\* The deep read has returned to its caller.
DeepFinish ==
    /\ call.op # "none"
    /\ call' = DeepIdle(call.deepdata)
    /\ UNCHANGED <<hnd, thr, lock, ghost, chan, scan, tiles>>

\* The calls of the caller t1, each run to its end before the next.
NextReopen ==
    \/ \E f \in ReopenFiles : Open("t1", f)
    \/ Close
    \/ \E sub \in SubimageArgs, op \in {"seek_subimage", "spec"} :
          Call("t1", op, sub)
    \/ OuterCheck("t1")
    \/ OuterLock("t1")
    \/ OuterRecheck("t1")
    \/ SeekCheck("t1")
    \/ ParseCheck("t1")
    \/ ParseBegin("t1")
    \/ ParseRest("t1")
    \/ SeekSetInit("t1")
    \/ \E mip \in MiplevelArgs : SeekTail("t1", mip)
    \/ \E mip \in MiplevelArgs : OuterTail("t1", mip)
    \/ Finish("t1")
    \/ \E sub \in SubimageArgs, mip \in MiplevelArgs : DeepScanlines(sub, mip)
    \/ \E sub \in SubimageArgs, mip \in MiplevelArgs : DeepTiles(sub, mip)
    \/ DeepFinish

SpecReopen == InitReopen /\ [][NextReopen]_vars

\* The parts a complete parse of the header hdr produces.
FreshParse(hdr) ==
    {r.part : r \in {q \in ParseHeaderRest(ParseHeaderReset(PartInfoDefault),
                                           hdr) : q.ok}}

\* Every part of the open handle that is marked initialized, and every spec
\* a finished spec call returned, comes from the header of that part in the
\* file that is open.
FromOpenFile ==
    hnd.m_exr_context # "null" =>
        /\ \A i \in 1..Len(hnd.m_parts) :
              hnd.m_parts[i].initialized =>
                  hnd.m_parts[i] \in FreshParse(hnd.file.parts[i])
        /\ (thr["t1"].pc = "done" /\ thr["t1"].op = "spec"
                                  /\ thr["t1"].ret.ok) =>
              thr["t1"].ret.spec \in
                  {compute_mipres(q, thr["t1"].mip, q.spec) :
                      q \in FreshParse(hnd.file.parts[thr["t1"].sub + 1])}

\* C18: after close() every part of the handle is Uninitialized, so that
\* for any sequence open(A), seek/spec on parts, close(), open(B) on the
\* same handle, every part description returned afterwards is parsed from
\* B's header and none is reused from A.
C18_PartsDieWithFile ==
    /\ hnd.m_exr_context = "null" =>
          \A i \in 1..Len(hnd.m_parts) : ~hnd.m_parts[i].initialized
    /\ FromOpenFile

\* The same within the first file opened on the handle.
C18_FirstFile ==
    ghost.opens <= 1 => FromOpenFile

\* open(A) on the two-part file, close(), open(B) on the one-part file:
\* spec(0, 0) has returned the three half channels of A's first part for
\* B's first part, which has a half and a float channel, and B's header was
\* not parsed.
C18_FailingInput ==
    /\ ghost.opens = 2
    /\ hnd.m_exr_context = "one_part"
    /\ ghost.begun = <<0>>
    /\ thr["t1"].pc = "done" /\ thr["t1"].op = "spec" /\ thr["t1"].sub = 0
    /\ thr["t1"].ret.ok
    /\ thr["t1"].ret.spec.nchannels = 3
    /\ thr["t1"].ret.spec.format = "HALF"

\* C19: read_native_deep_scanlines and read_native_deep_tiles always return
\* false with an error recorded, for every argument and in every state of
\* the handle, and they change no part, no seek position and no output
\* data.
C19_DeepUnsupported ==
    [][(call.op = "none" /\ call'.op # "none") =>
          /\ call'.ret = FALSE
          /\ call'.error # ""
          /\ call'.deepdata = call.deepdata
          /\ hnd' = hnd
          /\ thr' = thr /\ lock' = lock]_vars

\* read_native_deep_tiles has returned false on the second file opened on
\* the handle, while a spec call was between its steps and part 0 was
\* initialized; the caller's DeepData still holds its samples.
C19_Witness ==
    /\ call.op = "read_native_deep_tiles"
    /\ call.ret = FALSE /\ call.error # ""
    /\ call.deepdata = "samples"
    /\ ghost.opens = 2
    /\ hnd.m_exr_context # "null"
    /\ hnd.m_parts[1].initialized
    /\ thr["t1"].pc = "outer_tail"

-----------------------------------------------------------------------------
(* The scratch chunk of the scanline reads (SpecScan).                     *)

\* Chunk i of the call's log was entered at a chunk-aligned row: every
\* chunk but a first one that starts inside a chunk.
EnteredAligned(i) ==
    i > 1 \/ (scan.ybegin - scan.spec.y) % scan.chunkrows = 0

\* The row after the last row the chunk at y holds.
ChunkEnd(y) == Min(y + scan.chunkrows, scan.spec.y + scan.spec.height)

\* C20: whenever the chunk starting at an aligned row y would decode rows at
\* or beyond yend (y + scansperchunk > yend) and lies within the image's
\* extent (y + scansperchunk <= spec.y + spec.height), it is decoded into
\* the scratch buffer and only the rows y..yend-1 are copied to the caller's
\* buffer; a chunk is decoded directly into the caller's buffer only when
\* all of its rows are requested.
C20_ScratchAtRangeEnd ==
    \A i \in 1..Len(scan.log) :
        LET y == scan.log[i].y
            spc == scan.chunkrows
        IN  EnteredAligned(i) =>
              /\ (y + spc > scan.yend
                     /\ y + spc <= scan.spec.y + scan.spec.height) =>
                    /\ scan.log[i].scratch
                    /\ scan.data.over = {}
              /\ ~scan.log[i].scratch =>
                    (scan.ybegin <= y /\ ChunkEnd(y) <= scan.yend)

\* The same for the chunks that end before the image's last row does.
C20_ScratchInsideImage ==
    \A i \in 1..Len(scan.log) :
        LET y == scan.log[i].y
            spc == scan.chunkrows
        IN  (EnteredAligned(i) /\ y + spc > scan.yend
                /\ y + spc < scan.spec.y + scan.spec.height) =>
                  scan.log[i].scratch

\* Rows [12, 13) of a 16-row image in chunks of 4 rows were read: the chunk
\* at row 12 ends with the image, it was decoded directly into the caller's
\* one-row buffer and three rows were stored past its end.
C20_FailingInput ==
    /\ scan.pc = "done" /\ scan.ret = TRUE
    /\ scan.spec.y = 0 /\ scan.spec.height = 16 /\ scan.chunkrows = 4
    /\ scan.ybegin = 12 /\ scan.yend = 13
    /\ Len(scan.log) = 1 /\ ~scan.log[1].scratch
    /\ Cardinality(scan.data.over) = 3 * scan.scanlinebytes

-----------------------------------------------------------------------------
(* The decode pipeline across the chunks of one call.                      *)

\* The chunks of a call's log that reached the pipeline: those whose block
\* info was read.
ReachedPipeline(log) == {i \in 1..Len(log) : log[i].fail # "info"}

\* Over the chunks logged, the pipeline was initialized at most once and
\* never while live, the routines were selected at most once, and every
\* chunk that reached the pipeline after the first one used update.
PipelineOnce(log, decoder) ==
    /\ decoder.inits <= 1
    /\ decoder.reinits = 0
    /\ decoder.chooses <= 1
    /\ ReachedPipeline(log) # {} =>
          decoder.updates = Cardinality(ReachedPipeline(log)) - 1

\* C21: within one read_native_scanlines or read_native_tiles call the
\* decode pipeline is initialized at most once, on the first chunk that
\* reaches it, every chunk processed afterwards uses the pipeline update,
\* and the routines are selected once; on every path, including those on
\* which a chunk's initialize, routine selection or run fails.
C21_PipelineInitOnce ==
    /\ ~tiles.off => PipelineOnce(tiles.log, tiles.decoder)
    /\ ~scan.off => PipelineOnce(scan.log, scan.decoder)

\* The same for the read_native_tiles calls in which no initialize and no
\* routine selection fails.
C21_PipelineInitOnce_NoInitFailure ==
    (~tiles.off /\ \A i \in 1..Len(tiles.log) :
                      tiles.log[i].fail \notin {"pipeline", "choose"}) =>
        PipelineOnce(tiles.log, tiles.decoder)

\* A read_native_tiles call of four tiles has returned: the routine
\* selection failed on its first tile and the three other tiles decoded.
\* The pipeline was initialized twice, the second time while live.
C21_FailingInput ==
    /\ ~tiles.off /\ tiles.op = "tiles" /\ tiles.pc = "done"
    /\ Len(tiles.log) = 4
    /\ tiles.log[1].fail = "choose"
    /\ \A i \in 2..4 : tiles.log[i].fail = "none"
    /\ tiles.decoder.inits = 2 /\ tiles.decoder.reinits = 1
    /\ tiles.decoder.chooses = 2 /\ tiles.decoder.updates = 2

-----------------------------------------------------------------------------
(* SpecBind: the codec's channels bound to the caller's buffer.            *)

\* Largest address of the chunk's destination (cdata, curtilestart).
MaxStart == 8

\* decoder.channels[dc] after exr_decoding_initialize / exr_decoding_update.
Unbound ==
    [bound |-> FALSE, decode_to_ptr |-> 0 - 1, user_pixel_stride |-> 0,
     user_line_stride |-> 0]

\* The binding loop with chanoffset advanced for every requested channel.
RECURSIVE bind_channels_advance(_, _, _, _, _, _, _, _)
bind_channels_advance(spec, c, chend, chanoffset, channels, cdata, pixelbytes, linebytes) ==
    IF c >= chend THEN channels
    ELSE LET cname == spec.channelnames[c + 1]
             hits == {dc \in 1..Len(channels) : channels[dc].channel_name = cname}
             dc0 == CHOOSE dc \in hits : \A e \in hits : dc <= e
             next == IF hits = {} THEN channels
                     ELSE [channels EXCEPT
                             ![dc0].bound = TRUE,
                             ![dc0].decode_to_ptr = cdata + chanoffset,
                             ![dc0].user_pixel_stride = pixelbytes,
                             ![dc0].user_line_stride = linebytes]
         IN  bind_channels_advance(spec, c + 1, chend,
                 chanoffset + TypeSize(channelformat(spec, c)),
                 next, cdata, pixelbytes, linebytes)

\* read_native_scanlines, lines 1494-1517, and read_native_tiles, lines
\* 1765-1786: the loop over the requested channels from c on, chanoffset
\* being the bytes given out so far.  For each, the first codec channel of
\* that name is bound; chanoffset advances when one is found.
RECURSIVE bind_channels(_, _, _, _, _, _, _, _)
bind_channels(spec, c, chend, chanoffset, channels, cdata, pixelbytes, linebytes) ==
    IF c >= chend THEN channels
    ELSE LET chanbytes == TypeSize(channelformat(spec, c))
             cname == spec.channelnames[c + 1]
             hits == {dc \in 1..Len(channels) : channels[dc].channel_name = cname}
             dc0 == CHOOSE dc \in hits : \A e \in hits : dc <= e
         IN  IF hits = {}
             THEN bind_channels(spec, c + 1, chend, chanoffset, channels,
                                cdata, pixelbytes, linebytes)
             ELSE bind_channels(spec, c + 1, chend, chanoffset + chanbytes,
                     [channels EXCEPT
                        ![dc0].bound = TRUE,
                        ![dc0].decode_to_ptr = cdata + chanoffset,
                        ![dc0].user_pixel_stride = pixelbytes,
                        ![dc0].user_line_stride = linebytes],
                     cdata, pixelbytes, linebytes)

\* The parts of the files read: the channel names in the file's order (the
\* order of the codec's channels) and, in the order query_channels presents
\* them, the names and types of the part's spec.
BindPart(file_names, names, fmts) ==
    [file_names |-> file_names,
     spec |-> [TileSpec(fmts) EXCEPT !.channelnames = names]]

BindParts ==
    { BindPart(<< <<66>>, <<71>>, <<82>> >>, << <<82>>, <<71>>, <<66>> >>,
               <<"HALF", "HALF", "HALF">>),
      BindPart(<< <<82>>, <<90>> >>, << <<82>>, <<90>> >>,
               <<"HALF", "FLOAT">>),
      BindPart(<< <<65>>, <<66>>, <<71>>, <<82>> >>,
               << <<82>>, <<71>>, <<66>>, <<65>> >>,
               <<"FLOAT", "HALF", "HALF", "UINT">>),
      BindPart(<< <<65>>, <<114>> >>, << <<114>>, <<65>> >>,
               <<"FLOAT", "HALF">>) }

\* A read call before the chunk's channels are bound.  The spec is that of
\* m_parts[subimage]; the codec reports the channels of the part of the open
\* file, which a handle opened a second time can have taken from the file
\* opened before (m_parts survives close).
InitBind ==
    /\ \E p \in BindParts, q \in BindParts, chbegin \in 0..1,
          chend_arg \in 1..4, cdata \in {0, MaxStart}, nx \in 1..2 :
          LET chend == clamp(chend_arg, chbegin + 1, p.spec.nchannels)
              pixelbytes == pixel_bytes(p.spec, chbegin, chend)
          IN  /\ chbegin < p.spec.nchannels
              /\ call = [pc |-> "initialized", spec |-> p.spec,
                         stale |-> p # q,
                         chbegin |-> chbegin, chend |-> chend,
                         cdata |-> cdata, pixelbytes |-> pixelbytes,
                         linebytes |-> nx * 2 * pixelbytes,
                         channels |->
                            [dc \in 1..Len(q.file_names) |->
                               Unbound @@ [channel_name |-> q.file_names[dc]]],
                         rv |-> "EXR_ERR_SUCCESS"]
    /\ chan = ChanOff
    /\ hnd = HandleOff /\ thr = HandleOff /\ lock = HandleOff
    /\ ghost = HandleOff
    /\ scan = ScanOff
    /\ tiles = TilesOff

\* The binding loop of one chunk.
BindChannels ==
    /\ call.pc = "initialized"
    /\ call' = [call EXCEPT
                  !.pc = "bound",
                  !.channels = bind_channels(call.spec, call.chbegin,
                                  call.chend, 0, call.channels, call.cdata,
                                  call.pixelbytes, call.linebytes)]
    /\ UNCHANGED <<chan, hnd, thr, lock, ghost, scan, tiles>>

\* The routine selection and the run that follow the binding.
BindRun ==
    /\ call.pc = "bound"
    /\ \E rv \in {"EXR_ERR_SUCCESS", "EXR_ERR_FAILED"} :
          call' = [call EXCEPT !.pc = "run", !.rv = rv]
    /\ UNCHANGED <<chan, hnd, thr, lock, ghost, scan, tiles>>

NextBind ==
    \/ BindChannels
    \/ BindRun

SpecBind == InitBind /\ [][NextBind]_vars

\* The codec channels named as the requested channel c.
Reported(c) ==
    {dc \in 1..Len(call.channels) :
        call.channels[dc].channel_name = call.spec.channelnames[c + 1]}

\* What C22 says of the requested channel c once the chunk is bound.
BoundAsRequested(c) ==
    IF Reported(c) # {}
    THEN \E dc \in Reported(c) :
            /\ call.channels[dc].bound
            /\ call.channels[dc].decode_to_ptr =
                   call.cdata + pixel_bytes(call.spec, call.chbegin, c)
            /\ call.channels[dc].user_pixel_stride =
                   pixel_bytes(call.spec, call.chbegin, call.chend)
            /\ call.channels[dc].user_line_stride = call.linebytes
    ELSE call.pc = "bound" => call.rv = "EXR_ERR_SUCCESS"

\* C22: for each chunk and each requested channel c in [chbegin, chend), if
\* the codec reports a channel of exactly that name, that codec channel is
\* bound to the caller's buffer: destination offset within a pixel equal to
\* the sum of the byte sizes of the requested channels before c, pixel
\* stride equal to the bytes of all the requested channels, and the
\* request's line stride; a requested channel the codec does not report is
\* left unbound and does not make the call fail.
C22_ChannelBinding ==
    call.pc \in {"bound", "run"} =>
        /\ \A c \in call.chbegin..(call.chend - 1) : BoundAsRequested(c)
        /\ \A dc \in 1..Len(call.channels) :
              call.channels[dc].bound =>
                 \E c \in call.chbegin..(call.chend - 1) : dc \in Reported(c)

\* The same when the codec reports the channels of the part whose spec is
\* used.
C22_ChannelBinding_SamePart ==
    ~call.stale => C22_ChannelBinding

\* The channels R, G, B, A (4, 2, 2, 4 bytes) were requested from a codec
\* that reports A and r: R, G and B are unbound and A is bound at offset 0 of
\* the pixel, not at offset 8.
C22_FailingInput ==
    /\ call.pc = "bound" /\ call.stale
    /\ call.spec.channelnames = << <<82>>, <<71>>, <<66>>, <<65>> >>
    /\ call.chbegin = 0 /\ call.chend = 4 /\ call.cdata = 0
    /\ Len(call.channels) = 2
    /\ call.channels[1].channel_name = <<65>>
    /\ call.channels[1].bound /\ call.channels[1].decode_to_ptr = 0
    /\ ~call.channels[2].bound

-----------------------------------------------------------------------------
(* The tiles a read_native_tiles call asks the codec for.                  *)

\* The smallest number of steps of length step that cover the length len.
CeilDiv(len, step) ==
    CHOOSE n \in 0..(len + step) : n * step >= len /\ (n - 1) * step < len

\* C23: in read_native_tiles the first tile indices are
\* (xbegin - spec.x) / tile_width and (ybegin - spec.y) / tile_height, the
\* request's xend and yend are clamped to the data window's origin plus the
\* level's width and height before the tile counts
\* ceil((xend - xbegin) / tile_width) and ceil((yend - ybegin) / tile_height)
\* are computed, and no tile that lies wholly outside the level's pixel
\* extent is requested from the codec.
C23_TileRange ==
    (~tiles.off /\ tiles.op = "tiles" /\ tiles.levels_ok
                /\ tiles.pc # "entry") =>
        LET sp == tiles.spec
            xend == Min(tiles.req_xend, sp.x + tiles.levw)
            yend == Min(tiles.req_yend, sp.y + tiles.levh)
        IN  /\ tiles.firstxtile * sp.tile_width <= tiles.xbegin - sp.x
            /\ tiles.xbegin - sp.x < (tiles.firstxtile + 1) * sp.tile_width
            /\ tiles.firstytile * sp.tile_height <= tiles.ybegin - sp.y
            /\ tiles.ybegin - sp.y < (tiles.firstytile + 1) * sp.tile_height
            /\ tiles.xend = xend /\ tiles.yend = yend
            /\ tiles.nxtiles = CeilDiv(xend - tiles.xbegin, sp.tile_width)
            /\ tiles.nytiles = CeilDiv(yend - tiles.ybegin, sp.tile_height)
            /\ \A i \in 1..Len(tiles.log) :
                  /\ (tiles.firstxtile + tiles.log[i].tx) * sp.tile_width
                        < tiles.levw
                  /\ (tiles.firstytile + tiles.log[i].ty) * sp.tile_height
                        < tiles.levh

\* A request of 4 x 4 pixels at the origin (2, 2) of a level 2 pixels wide
\* and 4 high has returned: xend was clamped from 6 to 4, and the codec was
\* asked for the tiles (0, 0) and (0, 1) only.
C23_Witness ==
    /\ ~tiles.off /\ tiles.op = "tiles" /\ tiles.pc = "done"
    /\ tiles.levels_ok
    /\ tiles.spec.x = 2 /\ tiles.levw = 2 /\ tiles.levh = 4
    /\ tiles.xbegin = 2 /\ tiles.req_xend = 6 /\ tiles.xend = 4
    /\ tiles.ybegin = 2 /\ tiles.req_yend = 6
    /\ tiles.nxtiles = 1 /\ tiles.nytiles = 2
    /\ Len(tiles.log) = 2

-----------------------------------------------------------------------------
(* The rows read_native_scanlines writes.                                  *)

\* C24: for every range [ybegin, yend) inside the image, also one that ends
\* inside the image's last chunk or in a chunk that ends at the last row,
\* read_native_scanlines writes only the rows 0..(yend - ybegin - 1) of the
\* caller's buffer: no chunk is decoded directly into the caller's buffer
\* unless every row the chunk produces lies in [ybegin, yend).
C24_WritesOnlyRequestedRows ==
    ~scan.off =>
        /\ scan.data.over = {}
        /\ \A i \in 1..Len(scan.log) :
              (~scan.log[i].scratch /\ scan.log[i].fail = "none") =>
                  /\ scan.ybegin <= scan.log[i].y
                  /\ ChunkEnd(scan.log[i].y) <= scan.yend

\* The same for the ranges that end where a chunk ends, or before the
\* chunk that holds the image's last row.
C24_WritesOnlyRequestedRows_Inside ==
    (~scan.off
       /\ \/ (scan.yend - scan.spec.y) % scan.chunkrows = 0
          \/ scan.yend = scan.spec.y + scan.spec.height
          \/ scan.yend + scan.chunkrows - ((scan.yend - scan.spec.y) % scan.chunkrows)
                < scan.spec.y + scan.spec.height) =>
        scan.data.over = {}

\* Rows [12, 13) of a 14-row image in chunks of 4 rows were read: the last
\* chunk holds the rows 12 and 13, it was decoded directly and row 13 was
\* stored past the end of the caller's one-row buffer.
C24_FailingInput ==
    /\ ~scan.off /\ scan.pc = "done" /\ scan.ret = TRUE
    /\ scan.spec.y = 0 /\ scan.spec.height = 14 /\ scan.chunkrows = 4
    /\ scan.ybegin = 12 /\ scan.yend = 13
    /\ Len(scan.log) = 1 /\ ~scan.log[1].scratch
    /\ Cardinality(scan.data.over) = scan.scanlinebytes

-----------------------------------------------------------------------------
(* The rectangle filled for a failed tile.                                 *)

\* Every byte of the buffer that a fill wrote belongs to a pixel of a failed
\* tile inside the clamped request, and no fill wrote outside the buffer.
FillsInsideRequest(s) ==
    /\ \A o \in DOMAIN s.buf.mem :
          s.buf.mem[o].k = "fill" =>
              \E i \in 1..Len(s.log) :
                  /\ s.log[i].filled
                  /\ o \in TileRegion(s, s.log[i].tx, s.log[i].ty)
    /\ s.buf.over = {}

\* C25: in read_native_tiles, when a tile fails and is filled, the pixel
\* rectangle passed to check_fill_missing lies within the request rectangle
\* after clamping to the level extent, [xbegin, xend) x [ybegin, yend) with
\* the clamped xend and yend, also for the partial tiles on the right and
\* bottom edges of the level.
C25_FillWithinClampedRequest ==
    (~tiles.off /\ tiles.op = "tiles" /\ tiles.levels_ok) =>
        FillsInsideRequest(tiles)

\* The same for the requests that the clamp leaves whole tiles, filled with
\* the channel types of the part read.
C25_FillWithinClampedRequest_WholeTiles ==
    (~tiles.off /\ tiles.op = "tiles" /\ tiles.levels_ok
        /\ tiles.m_spec.format = tiles.spec.format
        /\ tiles.m_spec.channelformats = tiles.spec.channelformats
        /\ (tiles.xend - tiles.xbegin) % tiles.spec.tile_width = 0
        /\ (tiles.yend - tiles.ybegin) % tiles.spec.tile_height = 0) =>
        FillsInsideRequest(tiles)

\* The tile (1, 0) of a 3 x 3 level with one half channel failed in a
\* request of [0, 4) x [0, 2) clamped to [0, 3) x [0, 2) and was filled: the
\* pixel (3, 0), outside the clamped request, holds the fill.
C25_FailingInput ==
    /\ ~tiles.off /\ tiles.op = "tiles" /\ tiles.pc = "done"
    /\ tiles.levels_ok
    /\ tiles.spec.x = 0 /\ tiles.levw = 3 /\ tiles.levh = 3
    /\ tiles.spec.format = "HALF" /\ tiles.m_spec = tiles.spec
    /\ tiles.xbegin = 0 /\ tiles.req_xend = 4 /\ tiles.xend = 3
    /\ tiles.ybegin = 0 /\ tiles.req_yend = 2
    /\ Len(tiles.log) = 2
    /\ tiles.log[1].fail = "none"
    /\ tiles.log[2].fail = "run" /\ tiles.log[2].filled
    /\ tiles.buf.mem[3 * tiles.pixelbytes].k = "fill"

-----------------------------------------------------------------------------
(* The seek position (SpecPart).                                           *)

\* current_subimage(), current_miplevel() and the current spec of the handle.
CurrentPosition(h) == <<h.m_subimage, h.m_miplevel, h.m_spec>>

\* The caller is inside seek_subimage (lines 1294-1320, parse_header
\* included), called directly or from open, spec, spec_dimensions, init_part.
InSeek(c) ==
    c.pc \in {"seek_check", "parse_check", "parse_lock", "parse_rest",
              "seek_setinit", "seek_tail"}

\* The step is one of caller t.
StepOf(t) == thr'[t] # thr[t]

\* C26: a seek_subimage call that returns false (subimage out of range,
\* header parse failure, or miplevel outside [0, nmiplevels)) leaves the seek
\* position unchanged: no step of a seek_subimage call, except the one that
\* returns true, changes current_subimage(), current_miplevel() or the
\* current spec.
C26_FailedSeekKeepsPosition ==
    [][\A t \in Callers :
          (InSeek(thr[t]) /\ StepOf(t) /\ thr'[t].seekret # "true") =>
              CurrentPosition(hnd') = CurrentPosition(hnd)]_vars

\* The same for the failures found before line 1304: the subimage out of
\* range and the header parse failure.
C26_FailedSeekKeepsPosition_BeforeMiplevel ==
    [][\A t \in Callers :
          (InSeek(thr[t]) /\ thr[t].pc # "seek_tail" /\ StepOf(t)
              /\ thr'[t].seekret # "true") =>
              CurrentPosition(hnd') = CurrentPosition(hnd)]_vars

\* seek_subimage(1, 3) has returned false on a file whose part 1 has one
\* level, the other caller idle: current_subimage() is 1, while the miplevel
\* and the spec are still those of part 0.
C26_FailingInput ==
    \E t \in Callers :
        /\ \A u \in Callers \ {t} : thr[u].pc = "idle"
        /\ thr[t].pc = "done" /\ thr[t].op = "seek_subimage"
        /\ thr[t].sub = 1 /\ thr[t].mip = 3
        /\ thr[t].ret = BoolRet(FALSE) /\ ~thr[t].parse_failed
        /\ hnd.m_nsubimages = 2
        /\ hnd.m_subimage = 1 /\ hnd.m_miplevel = 0
        /\ hnd.m_spec = PartOf(hnd, 0).spec
        /\ hnd.m_spec # PartOf(hnd, 1).spec

\* C27: spec(), spec_dimensions() and read_native_* (through init_part) never
\* change the seek position, for any part, initialized or not: no step of
\* such a call changes current_subimage(), current_miplevel() or the current
\* spec.
C27_QueriesKeepPosition ==
    [][\A t \in Callers :
          (thr[t].op \in {"spec", "spec_dimensions", "init_part"}
              /\ StepOf(t)) =>
              CurrentPosition(hnd') = CurrentPosition(hnd)]_vars

\* The same for the steps of these calls outside the seek_subimage they make
\* for a part that is not initialized.
C27_QueriesKeepPosition_Initialized ==
    [][\A t \in Callers :
          (thr[t].op \in {"spec", "spec_dimensions", "init_part"}
              /\ ~InSeek(thr[t]) /\ StepOf(t)) =>
              CurrentPosition(hnd') = CurrentPosition(hnd)]_vars

\* After open, which left the position at part 0, the only other call made
\* on the file was spec(1, 0), which parsed part 1 and returned its spec:
\* current_subimage() is 1 and the current spec is the spec of part 1.
C27_FailingInput ==
    \E t \in Callers :
        /\ \A u \in Callers \ {t} : thr[u].pc = "idle"
        /\ thr[t].pc = "done" /\ thr[t].op = "spec"
        /\ thr[t].sub = 1 /\ thr[t].mip = 0
        /\ thr[t].ret.ok /\ thr[t].seekret = "true" /\ thr[t].nparse = 1
        /\ ghost.begun = <<1, 1>>
        /\ hnd.m_subimage = 1
        /\ hnd.m_spec = PartOf(hnd, 1).spec
        /\ hnd.m_spec # PartOf(hnd, 0).spec

-----------------------------------------------------------------------------
(* The channel types of a fill.                                            *)

\* The tiles of the call that failed and were filled.
FilledTiles(s) == {i \in 1..Len(s.log) : s.log[i].fail # "none" /\ s.log[i].filled}

\* Every filled tile holds, on its pixels inside the request, the fill
\* pattern computed with the channel types of the part read.
FilledAsPartRead(s) ==
    \A i \in FilledTiles(s) :
        LET pat == FillPattern(s, s.log[i].tx, s.log[i].ty)
        IN  \A o \in TileRegion(s, s.log[i].tx, s.log[i].ty) :
                s.buf.mem[o] = pat.mem[o]

\* C28: when a tile read of subimage s fails and is filled, the channel
\* types check_fill_missing uses (hence the byte widths and the channels
\* written) are those of subimage s, whichever subimage the handle's seek
\* position is at.
C28_FillUsesPartRead ==
    (~tiles.off /\ tiles.op = "tiles" /\ tiles.pc = "done"
        /\ tiles.levels_ok) =>
        FilledAsPartRead(tiles)

\* The same when the seek position is at a part with the channel types of
\* the part read.
C28_FillUsesPartRead_SamePosition ==
    (~tiles.off /\ tiles.op = "tiles" /\ tiles.pc = "done"
        /\ tiles.levels_ok
        /\ tiles.m_spec.format = tiles.spec.format
        /\ tiles.m_spec.channelformats = tiles.spec.channelformats) =>
        FilledAsPartRead(tiles)

\* The part read has one half channel, the seek position is at a part with
\* a float and a half channel; the only tile of the request failed and was
\* filled with the solid color 5: the first pixel holds the first two bytes
\* of a float, not a half.
C28_FailingInput ==
    /\ ~tiles.off /\ tiles.op = "tiles" /\ tiles.pc = "done"
    /\ tiles.levels_ok
    /\ tiles.spec.format = "HALF" /\ tiles.spec.nchannels = 1
    /\ tiles.m_spec.nchannels = 2
    /\ channelformat(tiles.m_spec, 0) = "FLOAT"
    /\ tiles.m_missingcolor = <<5>>
    /\ Len(tiles.log) = 1 /\ FilledTiles(tiles) = {1}
    /\ tiles.ret = TRUE
    /\ tiles.buf.mem[0] = FillByte(5, "FLOAT", 1)
    /\ tiles.buf.mem[0] # FillPattern(tiles, 0, 0).mem[0]

-----------------------------------------------------------------------------
(* SpecOpen: open and close, the byte stream and the codec context.        *)

\* The open calls made on the handle, one after the other.
MaxAttempts == 3

\* The names opened: a good file, a file that cannot be read, a file that
\* exr_start_read rejects, a file whose part count cannot be had, a file
\* whose part 0 does not parse.
OpenNames == {"good.exr", "missing.exr", "notexr.exr", "nocount.exr", "badpart.exr"}

\* A Filesystem::IOProxy: the bytes it reads (those of the file named
\* content), its mode(), who owns it, and the open call that created it (0:
\* the caller did).
NoStream == [content |-> "", mode |-> "Closed", owner |-> "none", made |-> 0]

\* new Filesystem::IOFile(name, Filesystem::IOProxy::Read), in the n-th open.
IOFile(name, n) ==
    [content |-> name,
     mode |-> IF name = "missing.exr" THEN "Closed" ELSE "Read",
     owner |-> "handle", made |-> n]

\* The "oiio:ioproxy" the caller's config holds: none, a proxy that reads a
\* good file, a proxy opened for writing.
CallerProxies ==
    {NoStream,
     [content |-> "good.exr", mode |-> "Read", owner |-> "caller", made |-> 0],
     [content |-> "good.exr", mode |-> "Write", owner |-> "caller", made |-> 0]}

\* The handle's context and stream fields after init().
OpenInit == [m_exr_context |-> "null", m_io |-> NoStream, m_local_io |-> NoStream]

\* OpenEXRInput::close on these fields: exr_finish, then init().
close_io(h) == OpenInit

\* OpenEXRInput::open(name, newspec, config), lines 597-603 and 639-697, the
\* n-th open of the handle, config holding the proxy given (NoStream: none):
\* what it returns, why it failed, the fields afterwards, and the stream the
\* mode test and the codec's read function used. exr_start_read leaves a
\* null context when it fails.
open_io(h, name, proxy, n) ==
    LET h1 == IF proxy # NoStream THEN [h EXCEPT !.m_io = proxy] ELSE h
        h2 == IF h1.m_io = NoStream
              THEN [h1 EXCEPT !.m_io = IOFile(name, n),
                              !.m_local_io = IOFile(name, n)]
              ELSE h1
        io == h2.m_io
        dropped == [h2 EXCEPT !.m_local_io = NoStream, !.m_io = NoStream]
    IN  IF io.mode # "Read"
        THEN [ret |-> FALSE, cause |-> "mode", h |-> h2, used |-> io]
        ELSE IF io.content = "notexr.exr"
        THEN [ret |-> FALSE, cause |-> "start",
              h |-> [dropped EXCEPT !.m_exr_context = "null"], used |-> io]
        ELSE IF io.content = "nocount.exr"
        THEN [ret |-> FALSE, cause |-> "count",
              h |-> [dropped EXCEPT !.m_exr_context = io.content],
              used |-> io]
        ELSE IF io.content = "badpart.exr"
        THEN [ret |-> FALSE, cause |-> "seek", h |-> close_io(h2), used |-> io]
        ELSE [ret |-> TRUE, cause |-> "none",
              h |-> [h2 EXCEPT !.m_exr_context = io.content], used |-> io]

\* The handle and the last call made on it: the call, its arguments, its
\* result, and the open calls made so far.
OpenEntry ==
    [off |-> FALSE, h |-> OpenInit, op |-> "none", name |-> "",
     proxy |-> NoStream, ret |-> TRUE, cause |-> "none", used |-> NoStream,
     attempts |-> 0]

InitOpen ==
    /\ call = OpenEntry
    /\ hnd = HandleOff /\ thr = HandleOff /\ lock = HandleOff
    /\ ghost = HandleOff
    /\ chan = ChanOff
    /\ scan = ScanOff
    /\ tiles = TilesOff

\* open on a handle that is not open: newly constructed, closed, or left by
\* an open that returned false.
OpenCall(name, proxy) ==
    /\ call.attempts < MaxAttempts
    /\ ~(call.op = "open" /\ call.ret)
    /\ LET n == call.attempts + 1
           r == open_io(call.h, name, proxy, n)
       IN  call' = [off |-> FALSE, h |-> r.h, op |-> "open", name |-> name,
                    proxy |-> proxy, ret |-> r.ret, cause |-> r.cause,
                    used |-> r.used, attempts |-> n]
    /\ UNCHANGED <<hnd, thr, lock, ghost, chan, scan, tiles>>

\* close on a handle that open left open.
CloseCall ==
    /\ call.op = "open" /\ call.ret
    /\ call' = [call EXCEPT !.h = close_io(@), !.op = "close", !.ret = TRUE,
                            !.cause = "none"]
    /\ UNCHANGED <<hnd, thr, lock, ghost, chan, scan, tiles>>

NextOpen ==
    \/ \E name \in OpenNames, proxy \in CallerProxies : OpenCall(name, proxy)
    \/ CloseCall

SpecOpen == InitOpen /\ [][NextOpen]_vars

\* The last call was an open that returned false.
OpenFailed == ~call.off /\ call.op = "open" /\ ~call.ret

\* The last call was an open without a caller-supplied proxy that got as far
\* as its stream.
OpenedByName == ~call.off /\ call.op = "open" /\ call.proxy = NoStream

\* The stream the open used was created by that open for the name opened.
FreshStream == call.used = IOFile(call.name, call.attempts)

\* C29: after any open() that returns false (stream not readable, codec
\* context start failure, part-count failure, failure to initialize part 0)
\* the handle is closed: it holds no codec context and keeps no byte stream
\* of the failed attempt, so that a later open() of another name without a
\* caller-supplied proxy creates and uses a fresh stream for that name.
C29_FailedOpenCloses ==
    /\ OpenFailed => call.h = OpenInit
    /\ OpenedByName => FreshStream

\* The same for the failures of exr_start_read and of part 0, and for the
\* first open of a handle.
C29_FailedOpenCloses_StartOrPart ==
    /\ (OpenFailed /\ call.cause \in {"start", "seek"}) => call.h = OpenInit
    /\ (OpenedByName /\ call.attempts = 1) => FreshStream

\* The second open, of good.exr with no proxy, returned false: it used the
\* stream the first open had created for missing.exr, which the handle
\* still holds.
C29_FailingInput ==
    /\ OpenFailed /\ call.attempts = 2
    /\ call.name = "good.exr" /\ call.proxy = NoStream
    /\ call.cause = "mode"
    /\ call.used = IOFile("missing.exr", 1)
    /\ call.h.m_io = IOFile("missing.exr", 1)
    /\ call.h.m_local_io = IOFile("missing.exr", 1)

-----------------------------------------------------------------------------
(* SpecPipe: FFMPEGPipeOutput::open and close.                             *)

\* The largest int; m_spec.width, m_chans and m_bpp are ints.
INT_MAX == 2147483647

\* Strutil::split(str, result, sep) for a separator of one symbol: the
\* pieces between the separators, empty ones included; a string without
\* separator is one piece.  A name is a sequence of symbols: "." and words
\* that stand for strings without '.'.
RECURSIVE split(_, _)
split(str, sep) ==
    IF \A i \in 1..Len(str) : str[i] # sep THEN <<str>>
    ELSE LET i == CHOOSE k \in 1..Len(str) :
                     str[k] = sep /\ \A j \in 1..(k - 1) : str[j] # sep
         IN  <<SubSeq(str, 1, i - 1)>> \o split(SubSeq(str, i + 1, Len(str)), sep)

\* The names open is given.
PipeNames ==
    {<<"rgb24", ".", "stdout">>, <<"rgb", ".", "stdout">>,
     <<"rgb48le", ".", "stdout">>, <<"rgba", ".", "stdout">>,
     <<"rgba64le", ".", "stdout">>, <<"bgr24", ".", "stdout">>,
     <<"rgba", ".", "1920", ".", "1080", ".", "stdout">>,
     <<"rgb48le", ".", "1920", ".", "1080", ".", "file">>,
     <<"rgb24", ".", "1920", ".", "stdout">>,
     <<"rgb24", ".", "a", ".", "b", ".", "c", ".", "stdout">>,
     <<"rgb24", ".", "stdout", ".">>, <<"rgb24", ".", "file">>,
     <<".", "stdout">>, <<"stdout", ".", "rgb24">>, <<"rgb24">>, <<>>}

\* The specs open is given: width, height, format, nchannels.
PipeWidths == {0, 1, 2, (INT_MAX \div 8) + 1}
PipeHeights == {0, 1}
PipeTypes == {"UINT8", "UINT16", "FLOAT"}
PipeChannels == {1, 3, 4}

PipeSpecs ==
    [width : PipeWidths, height : PipeHeights, format : PipeTypes,
     nchannels : PipeChannels]

\* The members of a constructed FFMPEGPipeOutput (lines 51-56), and what
\* the last call returned and the errors it recorded.
PipeInit(name, spec) ==
    [off |-> FALSE, pc |-> "constructed", name |-> name, spec |-> spec,
     m_obuf |-> "nullptr", m_bytesperline |-> 0, m_chans |-> 0, m_bpp |-> 1,
     ret |-> TRUE, errors |-> <<>>]

\* m_spec.width * m_chans * m_bpp, computed in int and converted to size_t:
\* the values the multiplication can give.  Signed overflow is undefined;
\* the model then draws the result from two representatives of any value.
IntProduct(width, chans, bpp) ==
    IF width <= INT_MAX \div (chans * bpp) THEN {width * chans * bpp}
    ELSE {0, INT_MAX}

\* FFMPEGPipeOutput::open on the output o: the outputs it can leave.
pipe_open(o, name, spec) ==
    LET parts == split(name, ".")
        fail(o1, e) == {[o1 EXCEPT !.pc = "returned", !.ret = FALSE,
                                   !.errors = Append(@, e)]}
        p0 == parts[1]
        known == p0 \in {<<"rgb24">>, <<"rgb">>, <<"rgb48le">>, <<"rgba">>,
                         <<"rgba64le">>}
        bpp == IF p0 \in {<<"rgb24">>, <<"rgb">>, <<"rgba">>} THEN 1 ELSE 2
        chans == IF p0 \in {<<"rgba">>, <<"rgba64le">>} THEN 4 ELSE 3
        o1 == [o EXCEPT !.m_chans = 3, !.m_bpp = -1]
        o2 == [o EXCEPT !.m_chans = chans, !.m_bpp = bpp]
    IN  IF spec.width < 1 \/ spec.height < 1
        THEN fail(o, "resolution")
        ELSE IF Len(parts) # 2 /\ Len(parts) # 4
        THEN fail(o, "separate")
        ELSE IF ~known
        THEN fail(o1, "translation")
        ELSE IF bpp = 1 /\ spec.format # "UINT8"
        THEN fail(o2, "not 8-bit")
        ELSE IF bpp = 2 /\ spec.format # "UINT16"
        THEN fail(o2, "not 16-bit")
        ELSE IF spec.nchannels # chans
        THEN fail(o2, "channels")
        ELSE UNION {
            LET o3 == [o2 EXCEPT !.m_bytesperline = n]
            IN  IF parts[Len(parts)] = <<"stdout">>
                THEN {[o3 EXCEPT !.pc = "returned", !.ret = TRUE,
                                 !.m_obuf = "cout"]}
                ELSE fail(o3, "stream") :
            n \in IntProduct(spec.width, chans, bpp) }

\* FFMPEGPipeOutput::close.
pipe_close(o) ==
    [o EXCEPT !.pc = "closed", !.m_bytesperline = 0, !.m_obuf = "nullptr",
              !.ret = TRUE]

InitPipe ==
    /\ \E name \in PipeNames, spec \in PipeSpecs : call = PipeInit(name, spec)
    /\ hnd = HandleOff /\ thr = HandleOff /\ lock = HandleOff
    /\ ghost = HandleOff
    /\ chan = ChanOff
    /\ scan = ScanOff
    /\ tiles = TilesOff

PipeOpen ==
    /\ call.pc = "constructed"
    /\ call' \in pipe_open(call, call.name, call.spec)
    /\ UNCHANGED <<hnd, thr, lock, ghost, chan, scan, tiles>>

PipeClose ==
    /\ call.pc = "returned"
    /\ call' = pipe_close(call)
    /\ UNCHANGED <<hnd, thr, lock, ghost, chan, scan, tiles>>

NextPipe == PipeOpen \/ PipeClose

SpecPipe == InitPipe /\ [][NextPipe]_vars

\* The ffmpeg pixel formats named in the claim: bytes per channel, channels.
PixelFormats ==
    (<<"rgb24">> :> [bytes |-> 1, channels |-> 3])
    @@ (<<"rgb">> :> [bytes |-> 1, channels |-> 3])
    @@ (<<"rgb48le">> :> [bytes |-> 2, channels |-> 3])
    @@ (<<"rgba">> :> [bytes |-> 1, channels |-> 4])
    @@ (<<"rgba64le">> :> [bytes |-> 2, channels |-> 4])

\* The name and spec that open is to accept.
Acceptable(name, spec) ==
    LET parts == split(name, ".")
    IN  /\ spec.width >= 1 /\ spec.height >= 1
        /\ Len(parts) \in {2, 4}
        /\ parts[1] \in DOMAIN PixelFormats
        /\ parts[Len(parts)] = <<"stdout">>
        /\ spec.format = (IF PixelFormats[parts[1]].bytes = 1 THEN "UINT8"
                          ELSE "UINT16")
        /\ spec.nchannels = PixelFormats[parts[1]].channels

\* n = width * channels * bytes, without computing the product.
IsProduct(n, width, f) ==
    /\ n % (f.channels * f.bytes) = 0
    /\ n \div (f.channels * f.bytes) = width

\* open has returned as C30 says for what it returned.
ReturnedAsAccepted(o) ==
    /\ o.ret = Acceptable(o.name, o.spec)
    /\ ~o.ret => Len(o.errors) = 1

\* C30: FFMPEGPipeOutput::open returns true if and only if width and height
\* are at least 1, the name splits on '.' into exactly 2 or 4 parts whose
\* first is one of rgb24, rgb, rgb48le, rgba, rgba64le and whose last is
\* "stdout", and the spec's format and channel count are those of the pixel
\* format; on success bytes-per-line is width * channels *
\* bytes-per-channel, and every failing case returns false with an error
\* recorded.
C30_PipeOpen ==
    (~call.off /\ call.pc = "returned") =>
        /\ ReturnedAsAccepted(call)
        /\ call.ret =>
              IsProduct(call.m_bytesperline, call.spec.width,
                        PixelFormats[split(call.name, ".")[1]])

\* The same, the bytes per line for the widths whose product with the
\* channels and the bytes per channel is an int.
C30_PipeOpen_IntWidth ==
    (~call.off /\ call.pc = "returned") =>
        /\ ReturnedAsAccepted(call)
        /\ (call.ret /\ call.spec.width <= INT_MAX \div (call.m_chans * call.m_bpp)) =>
              IsProduct(call.m_bytesperline, call.spec.width,
                        PixelFormats[split(call.name, ".")[1]])

\* open("rgba64le.stdout") with a 16-bit, 4-channel spec 2^28 pixels wide
\* returned true with bytes per line 0.
C30_FailingInput ==
    /\ ~call.off /\ call.pc = "returned" /\ call.ret
    /\ call.name = <<"rgba64le", ".", "stdout">>
    /\ call.spec.width = (INT_MAX \div 8) + 1
    /\ call.spec.format = "UINT16" /\ call.spec.nchannels = 4
    /\ call.m_bytesperline = 0

====
